---- MODULE Spec2Model ----
(***************************************************************************)
(* Verification model of the DALiuGE manager layer:                        *)
(*   - NodeManager (dfms/manager/node_manager.py) and the Session objects  *)
(*     it holds;                                                           *)
(*   - DfmsDaemon (dfms/manager/daemon.py), its child manager processes    *)
(*     and its zeroconf discovery.                                         *)
(***************************************************************************)
EXTENDS Integers, Sequences, FiniteSets, TLC

(***************************************************************************)
(* Bounds of the model.                                                    *)
(***************************************************************************)
\* number of Session objects the NodeManager may construct in one behaviour
MaxObjects == 2

\* number of child processes the daemon may create in one behaviour
MaxChildren == 2
\* number of zeroconf notifications delivered in one behaviour
MaxNotifications == 3

\* number of running() and done(status) callbacks native code makes in one
\* behaviour
MaxCallbacks == 3

\* number of inputs of an application
MaxInputs == 2

\* number of arguments of a template function
MaxArgs == 3

\* chilesdo.py: len(VIS)
NumVis == 4

\* number of upstream drops of the application a RunDataObjectTask drives
MaxUpstream == 3

\* number of signals sent to a manager process
MaxSignals == 3

\* PIDs of the host the stop command runs on
MaxPid == 3

\* output drops a native-library application may be given, and the number
\* of addOutput calls made on it
MaxOutputs == 2

MaxAdds == 3

\* the clock of the Luigi driver runs from 0 to MaxTime
MaxTime == 2

\* the session ids the callers use
SessionIds == {"s1", "s2"}

VARIABLES
    \* ---- NodeManager ----
    sessions,     \* NodeManager._sessions: sessionId -> Session
    dlm,          \* DataLifecycleManager: drop uid -> number of addDrop calls for it
    useDLM,       \* NodeManager.__init__(useDLM): is there a DLM at all
    nextObj,      \* identity of the next Session object to be constructed
    nm_last,      \* the last NodeManager call: operation, session id, error
    nm_trace,     \* the calls into Session, DLM and template code the last call made
    hist          \* history of each id: "fresh", "gone" (destroyed and not created
                  \* again since) or "back" (created again after a destroy)

VARIABLES
    \* ---- DfmsDaemon ----
    enable_zeroconf, \* DfmsDaemon._enable_zeroconf
    handlers,        \* the daemon process has handle_signal installed for SIGINT/SIGTERM
    terminating,     \* the module's global of that name
    ioloop,          \* DfmsDaemon._ioloop: "none", "running" or "stopped"
    proc,            \* _nm_proc, _dim_proc, _mm_proc: the Process held for each kind
    child,           \* every Process object created: its kind and what the child does
    nextPid,         \* identity (and pid) of the next Process object
    rest,            \* the REST request the main thread is serving, and its response
    stopf,           \* the stop(), stopNM(), stopDIM() or stopMM() call in progress
    nm_service,      \* the NodeManager zeroconf service: "none", "advertised", "withdrawn"
    mm_browser,      \* _mm_browser: "none", "active" or "cancelled"
    node_managers,   \* the table nm_callback keeps: service name -> server
    mm_calls,        \* the add_node / remove_node calls made on the Master, in order
    zc_last          \* the last zeroconf notification delivered, and how many were

nmvars == <<sessions, dlm, useDLM, nextObj, nm_last, nm_trace, hist>>

dmvars == <<enable_zeroconf, handlers, terminating, ioloop, proc, child, nextPid, rest,
            stopf, nm_service, mm_browser, node_managers, mm_calls, zc_last>>

VARIABLES
    \* ---- native-library applications (dfms/apps/dynlib.py) ----
    dl_app,          \* the application object: its class, execStatus, and what
                     \* the callbacks of the native code have done to it
    dl_last          \* the last initialize() or run(): arguments, error and the
                     \* calls it made, in order

dlvars == <<dl_app, dl_last>>

VARIABLES
    \* ---- template enumeration (node_manager._functionAsTemplate) ----
    templates              \* a template function and, once enumerated, its entry

VARIABLES
    \* ---- execution engine, Luigi driver, chiles test ----
    pg,              \* the deployed graph: applications, drops, edges, modes
    drops,           \* drop uid -> status of the data drop
    apps,            \* app uid -> the engine's record of the application
    main,            \* chilesdo.py __main__: roots already set COMPLETED
    task             \* the RunDataObjectTask of the application

engvars == <<pg, drops, apps, main, task>>

VARIABLES
    \* ---- a manager process (cmdline.launchServer) ----
    mgr              \* main thread's line, _terminating, handle_signal's line, calls made

VARIABLES
    \* ---- the stop command (cmdline.start with -s) ----
    cli              \* the PID file, the processes of the host, and what the
                     \* command has done

VARIABLES
    \* ---- the Luigi driver's tasks (luigi_int.py) ----
    driver           \* the upstream objects of a drop, the leaves of the graph,
                     \* what the requires() methods returned, and
                     \* FinishGraphExecution._completed

\* the components other than the managers
appvars == <<dlvars, templates, engvars, mgr, cli, driver, driver>>

vars == <<nmvars, dmvars, appvars>>

(***************************************************************************)
(* Graph specs.  A graph spec is a set of node descriptors (their oids)    *)
(* and the edges its inputs/outputs entries describe.                      *)
(***************************************************************************)
Oids == {1, 2, 3}

GraphSpecs ==
    { [nodes |-> {1, 2}, edges |-> {<<1, 2>>}],
      [nodes |-> {3},    edges |-> {}],
      [nodes |-> {1, 2}, edges |-> {<<1, 2>>, <<2, 1>>}] }

\* the (lhOID, rhOID) pairs given to linkGraphParts
LinkChoices == {<<2, 3>>, <<3, 1>>}

\* the oids reachable from the set `from` along `edges`
RECURSIVE Reach(_, _)
Reach(from, edges) ==
    LET next == from \cup {e[2] : e \in {x \in edges : x[1] \in from}}
    IN  IF next = from THEN from ELSE Reach(next, edges)

HasCycle(nodes, edges) ==
    \E n \in nodes : n \in Reach({e[2] : e \in {x \in edges : x[1] = n}}, edges)

GraphRoots(nodes, edges) == {n \in nodes : ~ \E e \in edges : e[2] = n}

\* droputils.breadFirstTraverse: every drop reachable from the roots, once,
\* level by level (within a level by oid)
RECURSIVE SetToSeq(_)
SetToSeq(S) ==
    IF S = {} THEN <<>>
    ELSE LET m == CHOOSE x \in S : \A y \in S : x <= y
         IN  <<m>> \o SetToSeq(S \ {m})

RECURSIVE BfsFrom(_, _, _)
BfsFrom(level, seen, edges) ==
    IF level = {} THEN <<>>
    ELSE LET next == {e[2] : e \in {x \in edges : x[1] \in level}} \ (seen \cup level)
         IN  SetToSeq(level) \o BfsFrom(next, seen \cup level, edges)

breadFirstTraverse(roots, edges) == BfsFrom(roots, {}, edges)

(***************************************************************************)
(* Session.  Each operation returns the new session and an error ("OK"     *)
(* when it succeeds) and, for deploy, the calls it makes.                  *)
(***************************************************************************)
\* a drop's uid: the Session object that built it and its oid
DropUid(s, o) == <<s.obj, o>>

\* one call into Session, DLM or template code: what is called, on which Session
\* object (0: none), with which drops
Ev(ev, obj, arg) == [ev |-> ev, obj |-> obj, arg |-> arg]

NewSession(obj) ==
    [obj |-> obj, status |-> "PRISTINE", nodes |-> {}, edges |-> {},
     completed |-> {}, alive |-> TRUE]

Session_addGraphSpec(s, g) ==
    IF s.status \notin {"PRISTINE", "BUILDING"}
    THEN [s |-> s, err |-> "InvalidState"]
    ELSE IF g.nodes \cap s.nodes # {} \/ HasCycle(s.nodes \cup g.nodes, s.edges \cup g.edges)
    THEN [s |-> s, err |-> "InvalidGraph"]
    ELSE [s |-> [s EXCEPT !.status = "BUILDING",
                          !.nodes = s.nodes \cup g.nodes,
                          !.edges = s.edges \cup g.edges],
          err |-> "OK"]

Session_linkGraphParts(s, lh, rh) ==
    IF s.status # "BUILDING"
    THEN [s |-> s, err |-> "InvalidState"]
    ELSE IF lh \notin s.nodes \/ rh \notin s.nodes
            \/ HasCycle(s.nodes, s.edges \cup {<<lh, rh>>})
    THEN [s |-> s, err |-> "InvalidGraph"]
    ELSE [s |-> [s EXCEPT !.edges = s.edges \cup {<<lh, rh>>}], err |-> "OK"]

\* deploy: builds the drops, moves to RUNNING and emits the root trigger; the
\* roots named in completedDrops are moved to COMPLETED by that trigger
Session_deploy(s, completedDrops) ==
    IF s.status # "BUILDING"
    THEN [s |-> s, err |-> "InvalidState", trace |-> <<Ev("session.deploy", s.obj, {})>>]
    ELSE LET roots == GraphRoots(s.nodes, s.edges)
         IN  [s |-> [s EXCEPT !.status = "RUNNING",
                              !.completed = roots \cap completedDrops],
              err |-> "OK",
              trace |-> <<Ev("session.deploy", s.obj, {}),
                          Ev("trigger", s.obj, {DropUid(s, r) : r \in roots})>>]

Session_roots(s) == GraphRoots(s.nodes, s.edges)

Session_destroy(s) == [s EXCEPT !.alive = FALSE]

Session_getGraphStatus(s) ==
    [o \in s.nodes |-> IF o \in s.completed THEN "COMPLETED" ELSE "INITIALIZED"]

Session_getGraph(s) == [nodes |-> s.nodes, edges |-> s.edges]

(***************************************************************************)
(* Templates (dfms.manager.repository).  A template name is the sequence   *)
(* of the dot-separated parts of its fully-qualified name.                 *)
(***************************************************************************)
RepositoryModule == <<"dfms", "manager", "repository">>

\* the functions of the repository module and the graph spec each returns
RepositoryFunctions ==
    [complex_graph |-> [nodes |-> {1, 2}, edges |-> {<<1, 2>>}],
     archiving_app |-> [nodes |-> {3}, edges |-> {}]]

TplNames ==
    { <<"dfms", "manager", "repository", "complex_graph">>,
      <<"dfms", "manager", "repository", "archiving_app">>,
      <<"dfms", "manager", "repository", "nosuch">>,
      <<"nomodule", "f">> }

(***************************************************************************)
(* NodeManager.  The manager's state is the record st; every operation     *)
(* returns the new state, the error it raises ("OK" when none), the calls  *)
(* it made into Session, DLM and template code, and its return value.      *)
(***************************************************************************)
NoRet == [status |-> "", uris |-> {}, ids |-> {}, size |-> 0,
          nodes |-> {}, edges |-> {}, completed |-> {}]

Res(st, err, trace, ret) == [st |-> st, err |-> err, trace |-> trace, ret |-> ret]

\* DataLifecycleManager.addDrop, for each drop of the sequence in turn
RECURSIVE addDrops(_, _)
addDrops(d, uids) ==
    IF uids = <<>> THEN d
    ELSE LET u == Head(uids)
             d1 == IF u \in DOMAIN d THEN [d EXCEPT ![u] = d[u] + 1] ELSE (u :> 1) @@ d
         IN  addDrops(d1, Tail(uids))

RemoveKey(f, k) == [x \in DOMAIN f \ {k} |-> f[x]]

\* TRUE when the check passes, FALSE when it raises NoSessionException
check_session_id(st, sid) == sid \in DOMAIN st.sessions

\* mutant: the presence test is missing, the existing Session is replaced
createSession_replace(st, sid) ==
    Res([st EXCEPT !.sessions = (sid :> NewSession(st.nextObj)) @@ RemoveKey(st.sessions, sid),
                   !.nextObj = st.nextObj + 1],
        "OK", <<Ev("Session", st.nextObj, {})>>, NoRet)

createSession(st, sid) ==
    IF sid \in DOMAIN st.sessions
    THEN Res(st, "SessionAlreadyExists", <<>>, NoRet)
    ELSE Res([st EXCEPT !.sessions = (sid :> NewSession(st.nextObj)) @@ st.sessions,
                        !.nextObj = st.nextObj + 1],
             "OK", <<Ev("Session", st.nextObj, {})>>, NoRet)

getSessionStatus(st, sid) ==
    IF ~ check_session_id(st, sid) THEN Res(st, "NoSession", <<>>, NoRet)
    ELSE Res(st, "OK", <<Ev("session.status", st.sessions[sid].obj, {})>>,
             [NoRet EXCEPT !.status = st.sessions[sid].status])

linkGraphParts(st, sid, lhOID, rhOID) ==
    IF ~ check_session_id(st, sid) THEN Res(st, "NoSession", <<>>, NoRet)
    ELSE LET r == Session_linkGraphParts(st.sessions[sid], lhOID, rhOID)
         IN  Res([st EXCEPT !.sessions[sid] = r.s], r.err,
                 <<Ev("session.linkGraphParts", st.sessions[sid].obj, {})>>, NoRet)

\* mutant: a missing session is created on the fly instead of being refused
addGraphSpec_setdefault(st, sid, graphSpec) ==
    LET s0 == IF sid \in DOMAIN st.sessions THEN st.sessions[sid] ELSE NewSession(st.nextObj)
        r  == Session_addGraphSpec(s0, graphSpec)
    IN  Res([st EXCEPT !.sessions = (sid :> r.s) @@ RemoveKey(st.sessions, sid)], r.err,
            <<Ev("session.addGraphSpec", s0.obj, {})>>, NoRet)

\* mutant: the graph spec is merged into the session whatever the Session says
addGraphSpec_force(st, sid, graphSpec) ==
    IF ~ check_session_id(st, sid) THEN Res(st, "NoSession", <<>>, NoRet)
    ELSE LET s == st.sessions[sid]
         IN  Res([st EXCEPT !.sessions[sid] =
                     [s EXCEPT !.status = IF @ = "PRISTINE" THEN "BUILDING" ELSE @,
                               !.nodes = s.nodes \cup graphSpec.nodes,
                               !.edges = s.edges \cup graphSpec.edges]],
                 "OK", <<Ev("session.addGraphSpec", s.obj, {})>>, NoRet)

addGraphSpec(st, sid, graphSpec) ==
    IF ~ check_session_id(st, sid) THEN Res(st, "NoSession", <<>>, NoRet)
    ELSE LET r == Session_addGraphSpec(st.sessions[sid], graphSpec)
         IN  Res([st EXCEPT !.sessions[sid] = r.s], r.err,
                 <<Ev("session.addGraphSpec", st.sessions[sid].obj, {})>>, NoRet)

getGraphStatus(st, sid) ==
    IF ~ check_session_id(st, sid) THEN Res(st, "NoSession", <<>>, NoRet)
    ELSE LET g == Session_getGraphStatus(st.sessions[sid])
         IN  Res(st, "OK", <<Ev("session.getGraphStatus", st.sessions[sid].obj, {})>>,
                 [NoRet EXCEPT !.nodes = DOMAIN g,
                               !.completed = {o \in DOMAIN g : g[o] = "COMPLETED"}])

getGraph(st, sid) ==
    IF ~ check_session_id(st, sid) THEN Res(st, "NoSession", <<>>, NoRet)
    ELSE LET g == Session_getGraph(st.sessions[sid])
         IN  Res(st, "OK", <<Ev("session.getGraph", st.sessions[sid].obj, {})>>,
                 [NoRet EXCEPT !.nodes = g.nodes, !.edges = g.edges])

\* mutant: the drops are collected and registered before session.deploy()
deploySession_early(st, sid, completedDrops) ==
    IF ~ check_session_id(st, sid) THEN Res(st, "NoSession", <<>>, NoRet)
    ELSE LET session == st.sessions[sid]
             order == breadFirstTraverse(Session_roots(session), session.edges)
             uids  == [i \in DOMAIN order |-> DropUid(session, order[i])]
             regs  == IF st.useDLM THEN uids ELSE <<>>
             d     == Session_deploy(session, completedDrops)
         IN  Res([st EXCEPT !.sessions[sid] = d.s, !.dlm = addDrops(st.dlm, regs)],
                 d.err,
                 [i \in DOMAIN regs |-> Ev("dlm.addDrop", session.obj, {regs[i]})] \o d.trace,
                 IF d.err = "OK" THEN [NoRet EXCEPT !.uris = {uids[i] : i \in DOMAIN uids}]
                 ELSE NoRet)

\* mutant: the drops are registered with the DLM whether or not it is in use
deploySession_register(st, sid, completedDrops) ==
    IF ~ check_session_id(st, sid) THEN Res(st, "NoSession", <<>>, NoRet)
    ELSE LET session == st.sessions[sid]
             d       == Session_deploy(session, completedDrops)
         IN  IF d.err # "OK"
             THEN Res(st, d.err, d.trace, NoRet)
             ELSE LET order == breadFirstTraverse(Session_roots(d.s), d.s.edges)
                      uids  == [i \in DOMAIN order |-> DropUid(d.s, order[i])]
                  IN  Res([st EXCEPT !.sessions[sid] = d.s, !.dlm = addDrops(st.dlm, uids)],
                          "OK",
                          d.trace
                             \o [i \in DOMAIN uids |-> Ev("dlm.addDrop", d.s.obj, {uids[i]})],
                          [NoRet EXCEPT !.uris = {uids[i] : i \in DOMAIN uids}])

deploySession(st, sid, completedDrops) ==
    IF ~ check_session_id(st, sid) THEN Res(st, "NoSession", <<>>, NoRet)
    ELSE LET session == st.sessions[sid]
             d       == Session_deploy(session, completedDrops)
         IN  IF d.err # "OK"
             THEN Res(st, d.err, d.trace, NoRet)
             ELSE LET order == breadFirstTraverse(Session_roots(d.s), d.s.edges)
                      uids  == [i \in DOMAIN order |-> DropUid(d.s, order[i])]
                      regs  == IF st.useDLM THEN uids ELSE <<>>
                  IN  Res([st EXCEPT !.sessions[sid] = d.s, !.dlm = addDrops(st.dlm, regs)],
                          "OK",
                          d.trace
                             \o [i \in DOMAIN regs |-> Ev("dlm.addDrop", d.s.obj, {regs[i]})],
                          [NoRet EXCEPT !.uris = {uids[i] : i \in DOMAIN uids}])

\* mutant: the session is looked up, not popped
destroySession_keep(st, sid) ==
    IF ~ check_session_id(st, sid) THEN Res(st, "NoSession", <<>>, NoRet)
    ELSE Res([st EXCEPT !.sessions[sid] = Session_destroy(st.sessions[sid])], "OK",
             <<Ev("session.destroy", st.sessions[sid].obj, {})>>, NoRet)

\* mutant: the session map is emptied
destroySession_all(st, sid) ==
    IF ~ check_session_id(st, sid) THEN Res(st, "NoSession", <<>>, NoRet)
    ELSE Res([st EXCEPT !.sessions = <<>>], "OK",
             <<Ev("session.destroy", Session_destroy(st.sessions[sid]).obj, {})>>, NoRet)

destroySession(st, sid) ==
    IF ~ check_session_id(st, sid) THEN Res(st, "NoSession", <<>>, NoRet)
    ELSE Res([st EXCEPT !.sessions = RemoveKey(st.sessions, sid)], "OK",
             <<Ev("session.destroy", Session_destroy(st.sessions[sid]).obj, {})>>, NoRet)

getSessionIds(st) == DOMAIN st.sessions

getGraphSize(st, sid) ==
    IF ~ check_session_id(st, sid) THEN Res(st, "NoSession", <<>>, NoRet)
    ELSE Res(st, "OK", <<Ev("session._graph", st.sessions[sid].obj, {})>>,
             [NoRet EXCEPT !.size = Cardinality(st.sessions[sid].nodes)])

\* mutant: a failure after createSession removes the session again
quickDeploy_atomic(st, sid, graphSpec) ==
    LET c == createSession(st, sid)
    IN  IF c.err # "OK" THEN c
        ELSE LET a == addGraphSpec(c.st, sid, graphSpec)
             IN  IF a.err # "OK" THEN Res(st, a.err, c.trace \o a.trace, NoRet)
                 ELSE LET d == deploySession(a.st, sid, {})
                      IN  IF d.err # "OK" THEN Res(st, d.err, c.trace \o a.trace \o d.trace, NoRet)
                          ELSE Res(d.st, d.err, c.trace \o a.trace \o d.trace, d.ret)

\* quickDeploy: the three calls in a row, the first error ending it
quickDeploy(st, sid, graphSpec) ==
    LET c == createSession(st, sid)
    IN  IF c.err # "OK" THEN c
        ELSE LET a == addGraphSpec(c.st, sid, graphSpec)
             IN  IF a.err # "OK" THEN Res(a.st, a.err, c.trace \o a.trace, NoRet)
                 ELSE LET d == deploySession(a.st, sid, {})
                      IN  Res(d.st, d.err, c.trace \o a.trace \o d.trace, d.ret)

\* mutant: the template is resolved before the session id is checked
materializeTemplate_latecheck(st, tpl, sid) ==
    LET module == SubSeq(tpl, 1, Len(tpl) - 1)
        fname  == tpl[Len(tpl)]
    IN  IF module # RepositoryModule
        THEN Res(st, "ImportError", <<Ev("import_module", 0, {})>>, NoRet)
        ELSE IF fname \notin DOMAIN RepositoryFunctions
        THEN Res(st, "AttributeError", <<Ev("import_module", 0, {})>>, NoRet)
        ELSE LET a == addGraphSpec(st, sid, RepositoryFunctions[fname])
             IN  Res(a.st, a.err,
                     <<Ev("import_module", 0, {}), Ev("template.call", 0, {})>>
                        \o a.trace, NoRet)

materializeTemplate(st, tpl, sid) ==
    IF ~ check_session_id(st, sid) THEN Res(st, "NoSession", <<>>, NoRet)
    ELSE LET module == SubSeq(tpl, 1, Len(tpl) - 1)
             fname  == tpl[Len(tpl)]
         IN  IF module # RepositoryModule
             THEN Res(st, "ImportError", <<Ev("import_module", 0, {})>>, NoRet)
             ELSE IF fname \notin DOMAIN RepositoryFunctions
             THEN Res(st, "AttributeError", <<Ev("import_module", 0, {})>>, NoRet)
             ELSE LET a == addGraphSpec(st, sid, RepositoryFunctions[fname])
                  IN  Res(a.st, a.err,
                          <<Ev("import_module", 0, {}), Ev("template.call", 0, {})>>
                             \o a.trace, NoRet)

(***************************************************************************)
(* The NodeManager's callers: one action per public operation.             *)
(***************************************************************************)
NMState == [sessions |-> sessions, dlm |-> dlm, useDLM |-> useDLM, nextObj |-> nextObj]

CompletedChoices == {{}, {1}}

\* the call op(sid) returned (or raised) r
Apply(op, sid, r) ==
    /\ sessions' = r.st.sessions
    /\ dlm' = r.st.dlm
    /\ nextObj' = r.st.nextObj
    /\ nm_last' = [op |-> op, sid |-> sid, err |-> r.err]
    /\ nm_trace' = r.trace
    /\ hist' = IF op = "destroySession" /\ r.err = "OK"
               THEN [hist EXCEPT ![sid] = "gone"]
               ELSE IF /\ op \in {"createSession", "quickDeploy"}
                       /\ r.err # "SessionAlreadyExists"
                       /\ hist[sid] = "gone"
               THEN [hist EXCEPT ![sid] = "back"]
               ELSE hist
    /\ UNCHANGED <<useDLM, dmvars, appvars>>

\* a new Session object can still be constructed
CanConstruct(sid) == sid \in DOMAIN sessions \/ nextObj <= MaxObjects

CreateSession ==
    \E sid \in SessionIds :
        CanConstruct(sid) /\ Apply("createSession", sid, createSession(NMState, sid))

GetSessionStatus ==
    \E sid \in SessionIds : Apply("getSessionStatus", sid, getSessionStatus(NMState, sid))

QuickDeploy ==
    \E sid \in SessionIds, g \in GraphSpecs :
        CanConstruct(sid) /\ Apply("quickDeploy", sid, quickDeploy(NMState, sid, g))

LinkGraphParts ==
    \E sid \in SessionIds, l \in LinkChoices :
        Apply("linkGraphParts", sid, linkGraphParts(NMState, sid, l[1], l[2]))

\* linkGraphParts with any pair of oids
LinkAnyParts ==
    \E sid \in SessionIds, lhOID \in Oids, rhOID \in Oids :
        Apply("linkGraphParts", sid, linkGraphParts(NMState, sid, lhOID, rhOID))

AddGraphSpec ==
    \E sid \in SessionIds, g \in GraphSpecs :
        Apply("addGraphSpec", sid, addGraphSpec(NMState, sid, g))

GetGraphStatus ==
    \E sid \in SessionIds : Apply("getGraphStatus", sid, getGraphStatus(NMState, sid))

GetGraph ==
    \E sid \in SessionIds : Apply("getGraph", sid, getGraph(NMState, sid))

DeploySession ==
    \E sid \in SessionIds, c \in CompletedChoices :
        Apply("deploySession", sid, deploySession(NMState, sid, c))

DestroySession ==
    \E sid \in SessionIds : Apply("destroySession", sid, destroySession(NMState, sid))

GetSessionIds ==
    Apply("getSessionIds", "",
          Res(NMState, "OK", <<>>, [NoRet EXCEPT !.ids = getSessionIds(NMState)]))

GetGraphSize ==
    \E sid \in SessionIds : Apply("getGraphSize", sid, getGraphSize(NMState, sid))

MaterializeTemplate ==
    \E sid \in SessionIds, tpl \in TplNames :
        Apply("materializeTemplate", sid, materializeTemplate(NMState, tpl, sid))

NMInit ==
    /\ sessions = <<>>
    /\ dlm = <<>>
    /\ useDLM \in BOOLEAN
    /\ nextObj = 1
    /\ nm_last = [op |-> "none", sid |-> "", err |-> "OK"]
    /\ nm_trace = <<>>
    /\ hist = [sid \in SessionIds |-> "fresh"]

NMNext ==
    \/ CreateSession
    \/ GetSessionStatus
    \/ QuickDeploy
    \/ LinkGraphParts
    \/ AddGraphSpec
    \/ GetGraphStatus
    \/ GetGraph
    \/ DeploySession
    \/ DestroySession
    \/ GetSessionIds
    \/ GetGraphSize
    \/ MaterializeTemplate

\* the ids on which destroySession has succeeded at least once
destroyed == {sid \in SessionIds : hist[sid] # "fresh"}

\* the ids destroyed and not created again since
gone == {sid \in SessionIds : hist[sid] = "gone"}

(***************************************************************************)
(* Properties of the NodeManager.                                          *)
(***************************************************************************)
\* the operations that take the id of an existing session
CheckedOps == {"getSessionStatus", "linkGraphParts", "addGraphSpec", "getGraphStatus",
               "getGraph", "deploySession", "destroySession", "getGraphSize",
               "materializeTemplate"}

\* C1: createSession(id) for an id already in the session map raises
\* SessionAlreadyExists and changes nothing: the map, the Session object held
\* for the id, every other session, the DLM and the object counter stay as
\* they were.
C1_CreateExistingRefused ==
    [][ (nm_last'.op = "createSession" /\ nm_last'.sid \in DOMAIN sessions)
        => /\ nm_last'.err = "SessionAlreadyExists"
           /\ sessions' = sessions
           /\ dlm' = dlm
           /\ nextObj' = nextObj
           /\ nm_trace' = <<>> ]_nmvars

C1_Witness ==
    /\ nm_last.op = "createSession"
    /\ nm_last.err = "SessionAlreadyExists"
    /\ DOMAIN sessions = SessionIds
    /\ \E sid \in DOMAIN sessions : sessions[sid].status = "RUNNING"

\* what each checked operation gives for the id sid in the current state
CheckedResults(sid) ==
    {getSessionStatus(NMState, sid), getGraphStatus(NMState, sid), getGraph(NMState, sid),
     destroySession(NMState, sid), getGraphSize(NMState, sid)}
    \cup {linkGraphParts(NMState, sid, l[1], l[2]) : l \in LinkChoices}
    \cup {addGraphSpec(NMState, sid, g) : g \in GraphSpecs}
    \cup {deploySession(NMState, sid, c) : c \in CompletedChoices}
    \cup {materializeTemplate(NMState, tpl, sid) : tpl \in TplNames}

\* C2: every operation that takes the id of an existing session, called with
\* an id that is not in the session map, raises NoSession, makes no call into
\* Session, DLM or template code, and leaves the session map and the DLM
\* unchanged.
C2_UnknownSessionRefused ==
    /\ [](\A sid \in SessionIds \ DOMAIN sessions :
            \A r \in CheckedResults(sid) :
                r.err = "NoSession" /\ r.trace = <<>> /\ r.st = NMState)
    /\ [][ (nm_last'.op \in CheckedOps /\ nm_last'.sid \notin DOMAIN sessions)
           => /\ nm_last'.err = "NoSession"
              /\ nm_trace' = <<>>
              /\ sessions' = sessions
              /\ dlm' = dlm ]_nmvars

C2_Witness ==
    /\ nm_last.op = "materializeTemplate"
    /\ nm_last.err = "NoSession"
    /\ nm_trace = <<>>
    /\ DOMAIN sessions # {}
    /\ DOMAIN dlm # {}

\* C3 as stated: once destroySession(id) has been performed, every further
\* operation on that id, createSession included, fails with NoSession or
\* InvalidState.
C3_Original ==
    [][ (nm_last'.op \in CheckedOps \cup {"createSession"} /\ nm_last'.sid \in destroyed)
        => nm_last'.err \in {"NoSession", "InvalidState"} ]_nmvars

\* C3 as amended: once destroySession(id) has been performed, and for as long
\* as the id has not been created again, every operation that takes the id of
\* an existing session fails with NoSession and changes nothing, while
\* createSession(id) succeeds and registers a new, empty, PRISTINE Session.
C3_DestroyedUntilCreatedAgain ==
    [][ (nm_last'.sid \in gone)
        => /\ nm_last'.op \in CheckedOps
              => (nm_last'.err = "NoSession" /\ sessions' = sessions /\ dlm' = dlm)
           /\ nm_last'.op = "createSession"
              => /\ nm_last'.err = "OK"
                 /\ nm_last'.sid \in DOMAIN sessions'
                 /\ sessions'[nm_last'.sid] = NewSession(nextObj) ]_nmvars

C3_Witness ==
    /\ nm_last.op = "createSession"
    /\ nm_last.err = "OK"
    /\ hist[nm_last.sid] = "back"
    /\ sessions[nm_last.sid].status = "PRISTINE"

\* C4: getSessionIds() is the set of ids for which createSession succeeded
\* and destroySession has not been called since: it starts empty, a successful
\* createSession (also the one quickDeploy makes) adds its id, a destroySession
\* of a held id removes it, and no other call, failed or not, changes it.
C4_SessionIdsExact ==
    /\ getSessionIds(NMState) = {}
    /\ [][ getSessionIds(NMState)' =
             IF nm_last'.op = "createSession" /\ nm_last'.err = "OK"
             THEN getSessionIds(NMState) \cup {nm_last'.sid}
             ELSE IF nm_last'.op = "quickDeploy" /\ nm_last'.err # "SessionAlreadyExists"
             THEN getSessionIds(NMState) \cup {nm_last'.sid}
             ELSE IF nm_last'.op = "destroySession"
             THEN getSessionIds(NMState) \ {nm_last'.sid}
             ELSE getSessionIds(NMState) ]_nmvars

C4_Witness ==
    /\ nm_last.op = "getSessionIds"
    /\ getSessionIds(NMState) = {"s2"}
    /\ hist["s1"] = "gone"

\* C5: in a deploySession every drop of the session is registered with the
\* DLM before the session's root drops are triggered.
C5_RegisteredBeforeTrigger ==
    (nm_last.op = "deploySession" /\ nm_last.err = "OK")
    => \A i, j \in DOMAIN nm_trace :
          (nm_trace[i].ev = "dlm.addDrop" /\ nm_trace[j].ev = "trigger") => i < j

\* a template name resolves when its module is the repository module and
\* the module has the function
Resolves(t) ==
    /\ SubSeq(t, 1, Len(t) - 1) = RepositoryModule
    /\ t[Len(t)] \in DOMAIN RepositoryFunctions

\* C18: for an existing session, materializeTemplate with a name that does
\* not resolve fails with NoTemplate and changes nothing; with a name that
\* resolves it adds the graph spec the template function returns to that
\* session, and to no other.
C18_TemplateResolution ==
    \A sid \in DOMAIN sessions, t \in TplNames :
        LET r == materializeTemplate(NMState, t, sid) IN
        IF Resolves(t)
        THEN r.st = [NMState EXCEPT !.sessions[sid] =
                        Session_addGraphSpec(@, RepositoryFunctions[t[Len(t)]]).s]
        ELSE r.err = "NoTemplate" /\ r.st = NMState

\* C20: an operation addressed to one session leaves every other session as
\* it was: still held or still not held, with the same Session object, status
\* and graph.
C20_SessionsIndependent ==
    [][\A b \in SessionIds :
          b # nm_last'.sid =>
             /\ (b \in DOMAIN sessions') <=> (b \in DOMAIN sessions)
             /\ b \in DOMAIN sessions => sessions'[b] = sessions[b]]_nmvars

\* s1 was deployed while s2 was being built, and s2 is as it was
C20_Witness ==
    /\ nm_last.op = "deploySession" /\ nm_last.sid = "s1" /\ nm_last.err = "OK"
    /\ "s2" \in DOMAIN sessions
    /\ sessions["s2"].status = "BUILDING"
    /\ sessions["s1"].status = "RUNNING"

\* the events ev of the trace
Events(trace, ev) == {i \in DOMAIN trace : trace[i].ev = ev}

\* C21: deploySession on a session that is RUNNING raises InvalidState: it
\* returns no URI map, registers no drop with the DLM, does not trigger the
\* roots, and leaves the session as it was.
C21_RedeployRefused ==
    /\ [](\A sid \in DOMAIN sessions, c \in CompletedChoices :
            sessions[sid].status = "RUNNING" =>
               LET r == deploySession(NMState, sid, c)
               IN  /\ r.err = "InvalidState"
                   /\ r.ret = NoRet
                   /\ r.st = NMState
                   /\ Events(r.trace, "dlm.addDrop") = {}
                   /\ Events(r.trace, "trigger") = {})
    /\ [][ (/\ nm_last'.op = "deploySession"
            /\ nm_last'.sid \in DOMAIN sessions
            /\ sessions[nm_last'.sid].status = "RUNNING")
           => /\ nm_last'.err = "InvalidState"
              /\ dlm' = dlm
              /\ sessions' = sessions
              /\ Events(nm_trace', "dlm.addDrop") = {}
              /\ Events(nm_trace', "trigger") = {} ]_nmvars

\* a second deploySession of a RUNNING session with registered drops
C21_Witness ==
    /\ nm_last.op = "deploySession"
    /\ nm_last.err = "InvalidState"
    /\ nm_last.sid \in DOMAIN sessions
    /\ sessions[nm_last.sid].status = "RUNNING"
    /\ DOMAIN dlm # {}

\* C22: the drops of every session form a DAG. addGraphSpec of a graph spec
\* with a cycle on a PRISTINE session raises InvalidGraph and the session
\* stays PRISTINE; addGraphSpec or linkGraphParts that would close a cycle in
\* the session's graph fails and changes nothing.
C22_AlwaysDAG ==
    \A sid \in DOMAIN sessions :
        LET s == sessions[sid] IN
        /\ ~HasCycle(s.nodes, s.edges)
        /\ \A g \in GraphSpecs :
              LET r == addGraphSpec(NMState, sid, g) IN
              /\ (s.status = "PRISTINE" /\ HasCycle(g.nodes, g.edges))
                    => r.err = "InvalidGraph" /\ r.st = NMState
              /\ HasCycle(s.nodes \cup g.nodes, s.edges \cup g.edges)
                    => r.err # "OK" /\ r.st = NMState
        /\ \A l \in LinkChoices :
              HasCycle(s.nodes, s.edges \cup {l})
                 => LET r == linkGraphParts(NMState, sid, l[1], l[2])
                    IN  r.err # "OK" /\ r.st = NMState

\* a cyclic graph spec was refused by a PRISTINE session, while the other
\* session holds a graph that the link 3 -> 1 would close into a cycle
C22_Witness ==
    /\ nm_last.op = "addGraphSpec"
    /\ nm_last.err = "InvalidGraph"
    /\ nm_last.sid \in DOMAIN sessions
    /\ sessions[nm_last.sid].status = "PRISTINE"
    /\ \E sid \in DOMAIN sessions : {<<1, 2>>, <<2, 3>>} \subseteq sessions[sid].edges

\* C24: deploySession of a session that can be deployed returns the uids of
\* exactly the drops reachable from the session's roots; with useDLM it
\* registers each of them with the DLM exactly once and no drop is ever
\* registered twice, and without useDLM no drop is ever registered.
C24_DeployedDrops ==
    /\ \A sid \in DOMAIN sessions, c \in CompletedChoices :
          sessions[sid].status = "BUILDING" =>
             LET s     == sessions[sid]
                 r     == deploySession(NMState, sid, c)
                 reach == {DropUid(s, o) : o \in Reach(GraphRoots(s.nodes, s.edges), s.edges)}
                 added == {r.trace[i] : i \in Events(r.trace, "dlm.addDrop")}
             IN  /\ r.err = "OK"
                 /\ r.ret.uris = reach
                 /\ Cardinality(Events(r.trace, "dlm.addDrop")) = Cardinality(added)
                 /\ added = IF useDLM THEN {Ev("dlm.addDrop", s.obj, {u}) : u \in reach} ELSE {}
    /\ \A u \in DOMAIN dlm : dlm[u] = 1
    /\ ~useDLM => dlm = <<>>

\* a graph in which drop 3 is reached along two paths was deployed and its
\* three drops are registered
C24_Witness ==
    /\ nm_last.op = "deploySession"
    /\ nm_last.err = "OK"
    /\ useDLM
    /\ {<<1, 2>>, <<1, 3>>, <<2, 3>>} \subseteq sessions[nm_last.sid].edges
    /\ \A o \in Oids : DropUid(sessions[nm_last.sid], o) \in DOMAIN dlm

\* C25: a quickDeploy that fails after its createSession step leaves the
\* session registered; while an id is registered, createSession and
\* quickDeploy with it raise SessionAlreadyExists, and only destroySession
\* removes an id from the manager.
C25_QuickDeployNotAtomic ==
    /\ [](\A sid \in DOMAIN sessions :
            /\ createSession(NMState, sid).err = "SessionAlreadyExists"
            /\ \A g \in GraphSpecs : quickDeploy(NMState, sid, g).err = "SessionAlreadyExists")
    /\ [][ /\ (nm_last'.op = "quickDeploy" /\ nm_last'.err \notin {"OK", "SessionAlreadyExists"})
              => nm_last'.sid \in DOMAIN sessions' \ DOMAIN sessions
           /\ \A sid \in DOMAIN sessions \ DOMAIN sessions' :
                 nm_last'.op = "destroySession" /\ nm_last'.sid = sid ]_nmvars

\* quickDeploy failed in addGraphSpec and its session is still there
C25_Witness ==
    /\ nm_last.op = "quickDeploy"
    /\ nm_last.err = "InvalidGraph"
    /\ nm_last.sid \in DOMAIN sessions
    /\ sessions[nm_last.sid].status = "PRISTINE"

\* ======================================================================
\* DfmsDaemon (dfms/manager/daemon.py)
\* ======================================================================

\* the three kinds of manager, and the order in which stop() stops them
Kinds == {"nm", "dim", "mm"}

StopOrder == <<"nm", "dim", "mm">>

\* the value of an empty slot (None)
NoProc == 0

\* timeout = 10 in stop(); timeout=None of stopNM, stopDIM and stopMM
GraceTimeout == 10

NoTimeout == -1

\* zeroconf service names and the addresses their records carry
ServiceNames == {"nm-a", "nm-b"}

Servers == {"10.0.0.1", "10.0.0.2"}

StateChanges == {"Added", "Removed", "Updated"}

\* a Process object: not started, running f() at some line, or ended.
\* inherited: handle_signal was installed in the daemon when it was forked.
\* terminating: the child's copy of the global, taken at the fork.
\* ran_stop: a signal made the child run handle_signal up to daemon.stop().
NewProcess(kind) ==
    [kind |-> kind, state |-> "unstarted", phase |-> "-", inherited |-> FALSE,
     terminating |-> FALSE, ran_stop |-> FALSE]

\* Process.start(): the child starts at the first line of f with the signal
\* dispositions of the daemon at the time of the fork
Process_start(c, installed, term) ==
    [c EXCEPT !.state = "alive", !.phase = "forked", !.inherited = installed,
              !.terminating = installed /\ term]

Ended(c) == [c EXCEPT !.state = "dead", !.phase = "-", !.inherited = FALSE,
                      !.terminating = FALSE]

\* the handler the child has for a signal at its current line
ChildHandler(c, sig) ==
    IF c.phase = "manager" THEN "manager"
    ELSE IF c.phase = "int_reset" /\ sig = "SIGINT" THEN "default"
    ELSE IF c.inherited THEN "handle_signal"
    ELSE "default"

\* a signal reaches a child process: handle_signal returns at once when
\* terminating is set, else it calls daemon.stop(), which raises in the child
\* at the slot holding the child's own Process; the default handlers end the
\* process; what the manager does with the signal is up to the manager
Deliver(c, sig) ==
    IF c.state # "alive" THEN c
    ELSE IF ChildHandler(c, sig) = "handle_signal"
         THEN IF c.terminating THEN c ELSE [Ended(c) EXCEPT !.ran_stop = TRUE]
    ELSE IF ChildHandler(c, sig) = "default" THEN Ended(c)
    ELSE c

IdleRest == [pc |-> "idle", method |-> "", kind |-> "", body |-> "", status |-> 0,
             pid |-> NoProc]

IdleStop == [pc |-> "idle", kinds |-> <<>>, timeout |-> NoTimeout, origin |-> "",
             recorded |-> {}, log |-> <<>>]

\* the handler of a request is over: the response it leaves
Response(r, status, pid) == [r EXCEPT !.pc = "done", !.status = status, !.pid = pid]

NoNotification == [n |-> 0, name |-> "", change |-> "", resolved |-> FALSE,
                   server |-> "", error |-> ""]

\* the children of a kind that were forked
Spawned(k) == {p \in DOMAIN child : child[p].kind = k /\ child[p].state # "unstarted"}

\* DfmsDaemon(master, noNM, disable_zeroconf): startMM() first, then startNM();
\* run_with_cmdline constructs the daemon before it installs handle_signal
DfmsDaemon(master, noNM, disable_zeroconf) ==
    LET mm == IF master THEN 1 ELSE NoProc
        nm == IF noNM THEN NoProc ELSE IF master THEN 2 ELSE 1
        n  == (IF master THEN 1 ELSE 0) + (IF noNM THEN 0 ELSE 1)
    IN  /\ enable_zeroconf = ~disable_zeroconf
        /\ handlers = FALSE
        /\ terminating = FALSE
        /\ ioloop = "none"
        /\ proc = [k \in Kinds |-> IF k = "mm" THEN mm ELSE IF k = "nm" THEN nm
                                   ELSE NoProc]
        /\ child = [p \in 1..n |->
                      Process_start(NewProcess(IF p = mm THEN "mm" ELSE "nm"),
                                    FALSE, FALSE)]
        /\ nextPid = n + 1
        /\ rest = IdleRest
        /\ stopf = IdleStop
        /\ nm_service = IF ~noNM /\ ~disable_zeroconf THEN "advertised" ELSE "none"
        /\ mm_browser = IF master /\ ~disable_zeroconf THEN "active" ELSE "none"
        /\ node_managers = <<>>
        /\ mm_calls = <<>>
        /\ zc_last = NoNotification

zcvars == <<node_managers, mm_calls, zc_last>>

\* ---- run_with_cmdline ----

\* signal.signal(SIGINT, handle_signal); signal.signal(SIGTERM, handle_signal)
InstallHandlers ==
    /\ ~handlers /\ ioloop = "none" /\ stopf.pc = "idle"
    /\ handlers' = TRUE
    /\ UNCHANGED <<nmvars, appvars, enable_zeroconf, terminating, ioloop, proc, child, nextPid,
                   rest, stopf, nm_service, mm_browser,
                   zcvars>>

\* daemon.run(): the IOLoop is recorded and started
Run ==
    /\ handlers /\ ioloop = "none" /\ stopf.pc = "idle"
    /\ ioloop' = "running"
    /\ UNCHANGED <<nmvars, appvars, enable_zeroconf, handlers, terminating, proc, child, nextPid,
                   rest, stopf, nm_service, mm_browser,
                   zcvars>>

\* ---- REST interface ----

\* a request reaches rest_startNM/DIM/MM or rest_getNMInfo/DIMInfo/MMInfo
RestRequest ==
    /\ ioloop = "running" /\ rest.pc = "idle" /\ stopf.pc = "idle"
    /\ \E m \in {"GET", "POST"}, k \in Kinds, b \in {"none", "no-nodes", "nodes"} :
          /\ (m = "GET" \/ k # "dim") => b = "none"
          /\ m = "POST" => (nextPid <= MaxChildren \/ proc[k] # NoProc)
          /\ rest' = [IdleRest EXCEPT !.pc = "check", !.method = m, !.kind = k,
                                      !.body = b]
    /\ UNCHANGED <<nmvars, appvars, enable_zeroconf, handlers, terminating, ioloop, proc, child,
                   nextPid, stopf, nm_service, mm_browser,
                   zcvars>>

\* mutant: a process that has ended is not reported
rest_get_manager_info_alive(r, p, pid) ==
    IF p # NoProc /\ child[p].state = "alive" THEN Response(r, 200, pid)
    ELSE Response(r, 404, NoProc)

\* _rest_get_manager_info(proc): the pid of a Process that was not started
\* is None
rest_get_manager_info(r, p, pid) ==
    IF p # NoProc THEN Response(r, 200, pid) ELSE Response(r, 404, NoProc)

\* mutant: the test of proc is missing
rest_start_manager_unchecked(r, p) == [r EXCEPT !.pc = "assign"]

\* _rest_start_manager(proc, start_method), up to the call of start_method
rest_start_manager(r, p) ==
    IF p # NoProc THEN Response(r, 409, NoProc) ELSE [r EXCEPT !.pc = "assign"]

\* rest_startDIM: the body must be JSON with a "nodes" entry
rest_startDIM(r, p) ==
    IF r.body # "nodes" THEN Response(r, 400, NoProc) ELSE rest_start_manager(r, p)

\* rest_getNMInfo/DIMInfo/MMInfo, rest_startNM, rest_startDIM, rest_startMM
RestCheck ==
    /\ rest.pc = "check" /\ stopf.pc = "idle"
    /\ LET p == proc[rest.kind] IN
       rest' = IF rest.method = "GET"
               THEN rest_get_manager_info(rest, p,
                        IF p # NoProc /\ child[p].state # "unstarted" THEN p ELSE NoProc)
               ELSE IF rest.kind = "dim" THEN rest_startDIM(rest, p)
               ELSE rest_start_manager(rest, p)
    /\ UNCHANGED <<nmvars, appvars, enable_zeroconf, handlers, terminating, ioloop, proc, child,
                   nextPid, stopf, nm_service, mm_browser, zcvars>>

\* startNM/DIM/MM: self._X_proc = multiprocessing.Process(target=f)
RestAssign ==
    /\ rest.pc = "assign" /\ stopf.pc = "idle"
    /\ nextPid <= MaxChildren
    /\ proc' = [proc EXCEPT ![rest.kind] = nextPid]
    /\ child' = child @@ (nextPid :> NewProcess(rest.kind))
    /\ nextPid' = nextPid + 1
    /\ rest' = [rest EXCEPT !.pc = "start"]
    /\ UNCHANGED <<nmvars, appvars, enable_zeroconf, handlers, terminating, ioloop, stopf,
                   nm_service, mm_browser, zcvars>>

\* startNM/DIM/MM: self._X_proc.start()
RestStart ==
    /\ rest.pc = "start" /\ stopf.pc = "idle"
    /\ child' = [child EXCEPT ![proc[rest.kind]] = Process_start(@, handlers, terminating)]
    /\ rest' = [rest EXCEPT !.pc = "log"]
    /\ UNCHANGED <<nmvars, appvars, enable_zeroconf, handlers, terminating, ioloop, proc, nextPid,
                   stopf, nm_service, mm_browser, zcvars>>

\* startNM/DIM/MM: logger.info(... % (self._X_proc.pid)), which raises when
\* a stop() ran since the start and emptied the slot
RestLog ==
    /\ rest.pc = "log" /\ stopf.pc = "idle"
    /\ rest' = IF proc[rest.kind] = NoProc THEN Response(rest, 500, NoProc)
               ELSE IF rest.kind = "dim" \/ ~enable_zeroconf
                    THEN Response(rest, 200, NoProc)
               ELSE [rest EXCEPT !.pc = "zeroconf"]
    /\ UNCHANGED <<nmvars, appvars, enable_zeroconf, handlers, terminating, ioloop, proc, child,
                   nextPid, stopf, nm_service, mm_browser, zcvars>>

\* startNM: utils.register_service('NodeManager', ...);
\* startMM: node_managers = {} and utils.browse_service('NodeManager', ...)
RestZeroconf ==
    /\ rest.pc = "zeroconf" /\ stopf.pc = "idle"
    /\ IF rest.kind = "nm"
       THEN /\ nm_service' = "advertised"
            /\ UNCHANGED <<mm_browser, node_managers>>
       ELSE /\ mm_browser' = "active"
            /\ node_managers' = <<>>
            /\ UNCHANGED nm_service
    /\ rest' = Response(rest, 200, NoProc)
    /\ UNCHANGED <<nmvars, appvars, enable_zeroconf, handlers, terminating, ioloop, proc, child,
                   nextPid, stopf, mm_calls, zc_last>>

\* the response is sent and the request is over
RestReturn ==
    /\ rest.pc = "done" /\ stopf.pc = "idle"
    /\ rest' = IdleRest
    /\ UNCHANGED <<nmvars, appvars, enable_zeroconf, handlers, terminating, ioloop, proc, child,
                   nextPid, stopf, nm_service, mm_browser, zcvars>>

\* ---- stopping ----

\* the frame of a stop call over the given kinds; log is what _stop_manager
\* has done so far to the Process of the kind it is at
StopFrame(kinds, timeout, origin) ==
    [pc |-> "terminate", kinds |-> kinds, timeout |-> timeout, origin |-> origin,
     recorded |-> {proc[kinds[i]] : i \in DOMAIN kinds} \ {NoProc}, log |-> <<>>]

\* _stop_rest_server
stop_rest_server(loop) == IF loop # "none" THEN "stopped" ELSE loop

\* SIGINT or SIGTERM reaches the daemon: handle_signal, which calls
\* daemon.stop() unless terminating is already set; stop() starts with
\* _stop_rest_server(timeout)
Signal ==
    /\ handlers
    /\ IF terminating
       THEN UNCHANGED <<terminating, stopf, ioloop>>
       ELSE /\ stopf.pc = "idle"
            /\ terminating' = TRUE
            /\ stopf' = StopFrame(StopOrder, GraceTimeout, "stop")
            /\ ioloop' = stop_rest_server(ioloop)
    /\ UNCHANGED <<nmvars, appvars, enable_zeroconf, handlers, proc, child, nextPid, rest,
                   nm_service, mm_browser, zcvars>>

\* stopNM(), stopDIM() or stopMM() is called with its default timeout=None
StopOne ==
    /\ rest.pc = "idle" /\ stopf.pc = "idle"
    /\ \E k \in Kinds : stopf' = StopFrame(<<k>>, NoTimeout, k)
    /\ UNCHANGED <<nmvars, appvars, enable_zeroconf, handlers, terminating, ioloop, proc, child,
                   nextPid, rest, nm_service, mm_browser, zcvars>>

\* _stop_manager: proc = getattr(self, name); if proc: pid = proc.pid;
\* 'Terminating %d' % (pid,) raises for a Process that was not started (its
\* pid is None), and the exception leaves the stop call and the request the
\* signal interrupted; proc.terminate()
StopTerminate ==
    /\ stopf.pc = "terminate"
    /\ LET p == proc[Head(stopf.kinds)] IN
       IF p = NoProc
       THEN /\ stopf' = [stopf EXCEPT !.pc = "post"]
            /\ UNCHANGED <<child, rest>>
       ELSE IF child[p].state = "unstarted"
       THEN /\ stopf' = IdleStop
            /\ rest' = IF rest.pc \notin {"idle", "done"}
                       THEN Response(rest, 500, NoProc) ELSE rest
            /\ UNCHANGED child
       ELSE /\ child' = [child EXCEPT ![p] = Deliver(@, "SIGTERM")]
            /\ stopf' = [stopf EXCEPT !.pc = "join", !.log = <<"SIGTERM">>]
            /\ UNCHANGED rest
    /\ UNCHANGED <<nmvars, appvars, enable_zeroconf, handlers, terminating, ioloop, proc, nextPid,
                   nm_service, mm_browser, zcvars>>

\* mutant: the child is taken to have ended after the join
stop_manager_unchecked(f, c) ==
    [f EXCEPT !.pc = "clear", !.log = Append(@, "join(timeout): ended")]

\* _stop_manager: is_alive = proc.is_alive(); if is_alive: ...
stop_manager_is_alive(f, c) ==
    IF c.state = "dead"
    THEN [f EXCEPT !.pc = "clear", !.log = Append(@, "join(timeout): ended")]
    ELSE [f EXCEPT !.pc = "kill", !.log = Append(@, "join(timeout): alive")]

\* _stop_manager: proc.join(timeout) returns when the child has ended or the
\* timeout has passed (never, for None); then the is_alive check
StopJoin ==
    /\ stopf.pc = "join"
    /\ LET c == child[proc[Head(stopf.kinds)]] IN
          /\ c.state = "dead" \/ stopf.timeout # NoTimeout
          /\ stopf' = stop_manager_is_alive(stopf, c)
    /\ UNCHANGED <<nmvars, appvars, enable_zeroconf, handlers, terminating, ioloop, proc, child,
                   nextPid, rest, nm_service, mm_browser, zcvars>>

\* _stop_manager: os.kill(pid, signal.SIGKILL)
StopKill ==
    /\ stopf.pc = "kill"
    /\ child' = [child EXCEPT ![proc[Head(stopf.kinds)]] = Ended(@)]
    /\ stopf' = [stopf EXCEPT !.pc = "join2", !.log = Append(@, "SIGKILL")]
    /\ UNCHANGED <<nmvars, appvars, enable_zeroconf, handlers, terminating, ioloop, proc, nextPid,
                   rest, nm_service, mm_browser, zcvars>>

\* _stop_manager: proc.join() after the SIGKILL
StopJoin2 ==
    /\ stopf.pc = "join2"
    /\ child[proc[Head(stopf.kinds)]].state = "dead"
    /\ stopf' = [stopf EXCEPT !.pc = "clear", !.log = Append(@, "join()")]
    /\ UNCHANGED <<nmvars, appvars, enable_zeroconf, handlers, terminating, ioloop, proc, child,
                   nextPid, rest, nm_service, mm_browser, zcvars>>

\* _stop_manager: setattr(self, name, None)
StopClear ==
    /\ stopf.pc = "clear"
    /\ proc' = [proc EXCEPT ![Head(stopf.kinds)] = NoProc]
    /\ stopf' = [stopf EXCEPT !.pc = "post"]
    /\ UNCHANGED <<nmvars, appvars, enable_zeroconf, handlers, terminating, ioloop, child, nextPid,
                   rest, nm_service, mm_browser, zcvars>>

\* stopNM: deregister_service when zeroconf is enabled and _nm_zc is set;
\* stopMM: _mm_browser.cancel() when zeroconf is enabled and the browser is
\* set; then the next manager of stop(), or the call returns
StopPost ==
    /\ stopf.pc = "post"
    /\ LET k == Head(stopf.kinds) IN
          /\ nm_service' = IF k = "nm" /\ enable_zeroconf /\ nm_service # "none"
                           THEN "withdrawn" ELSE nm_service
          /\ mm_browser' = IF k = "mm" /\ enable_zeroconf /\ mm_browser # "none"
                           THEN "cancelled" ELSE mm_browser
    /\ stopf' = IF Len(stopf.kinds) > 1
                THEN [stopf EXCEPT !.pc = "terminate", !.kinds = Tail(@), !.log = <<>>]
                ELSE IdleStop
    /\ UNCHANGED <<nmvars, appvars, enable_zeroconf, handlers, terminating, ioloop, proc, child,
                   nextPid, rest, zcvars>>

\* ---- the child processes ----

\* the child runs the next lines of f: self._stop_rest_server(1) and
\* signal.signal(SIGINT, default_handler_int); then
\* signal.signal(SIGTERM, default_handler_term) and cmdline.dfmsNM/dfmsMM(args).
\* The Data Island child ends at once: f(nodes) is called without arguments.
ChildStep ==
    /\ \E p \in DOMAIN child :
          /\ child[p].state = "alive"
          /\ child[p].phase \in {"forked", "int_reset"}
          /\ child' = [child EXCEPT ![p] =
                          IF @.kind = "dim" THEN Ended(@)
                          ELSE IF @.phase = "forked" THEN [@ EXCEPT !.phase = "int_reset"]
                          ELSE [@ EXCEPT !.phase = "manager"]]
    /\ UNCHANGED <<nmvars, appvars, enable_zeroconf, handlers, terminating, ioloop, proc, nextPid,
                   rest, stopf, nm_service, mm_browser,
                   zcvars>>

\* the manager in a child ends (it returns, raises or exits)
ChildExit ==
    /\ \E p \in DOMAIN child :
          /\ child[p].state = "alive" /\ child[p].phase = "manager"
          /\ child' = [child EXCEPT ![p] = Ended(@)]
    /\ UNCHANGED <<nmvars, appvars, enable_zeroconf, handlers, terminating, ioloop, proc, nextPid,
                   rest, stopf, nm_service, mm_browser,
                   zcvars>>

\* SIGINT or SIGTERM reaches a child from outside the daemon
ChildSignal ==
    /\ \E p \in DOMAIN child, sig \in {"SIGINT", "SIGTERM"} :
          /\ child[p].state = "alive"
          /\ child[p].phase # "manager"
          /\ child' = [child EXCEPT ![p] = Deliver(@, sig)]
    /\ UNCHANGED <<nmvars, appvars, enable_zeroconf, handlers, terminating, ioloop, proc, nextPid,
                   rest, stopf, nm_service, mm_browser,
                   zcvars>>

\* ---- zeroconf ----

\* mutant: a service that is already in the table is not added again, and
\* removals are ignored
nm_callback_known(table, calls, name, change, resolved, server) ==
    IF change = "Added" /\ resolved /\ name \notin DOMAIN table
    THEN [table |-> [n \in DOMAIN table \cup {name} |->
                        IF n = name THEN server ELSE table[n]],
          calls |-> Append(calls, [op |-> "add_node", server |-> server]),
          error |-> ""]
    ELSE [table |-> table, calls |-> calls, error |-> ""]

\* mutant: a removal forwards remove_node and keeps the entry
nm_callback_keep(table, calls, name, change, resolved, server) ==
    IF change = "Added" /\ resolved
    THEN [table |-> [n \in DOMAIN table \cup {name} |->
                        IF n = name THEN server ELSE table[n]],
          calls |-> Append(calls, [op |-> "add_node", server |-> server]),
          error |-> ""]
    ELSE IF change = "Removed" /\ name \in DOMAIN table
    THEN [table |-> table,
          calls |-> Append(calls, [op |-> "remove_node", server |-> table[name]]),
          error |-> ""]
    ELSE [table |-> table, calls |-> calls, error |-> ""]

\* nm_callback(zeroconf, service_type, name, state_change); get_service_info
\* returns None for a service it cannot resolve
nm_callback(table, calls, name, change, resolved, server) ==
    IF change = "Added"
    THEN IF ~resolved
         THEN [table |-> table, calls |-> calls, error |-> "AttributeError"]
         ELSE [table |-> [n \in DOMAIN table \cup {name} |->
                             IF n = name THEN server ELSE table[n]],
               calls |-> Append(calls, [op |-> "add_node", server |-> server]),
               error |-> ""]
    ELSE IF change = "Removed"
    THEN IF name \notin DOMAIN table
         THEN [table |-> table, calls |-> calls, error |-> "KeyError"]
         ELSE [table |-> [n \in DOMAIN table \ {name} |-> table[n]],
               calls |-> Append(calls, [op |-> "remove_node", server |-> table[name]]),
               error |-> ""]
    ELSE [table |-> table, calls |-> calls, error |-> ""]

\* the browser delivers a notification to nm_callback
Notify ==
    /\ mm_browser = "active"
    /\ zc_last.n < MaxNotifications
    /\ \E name \in ServiceNames, change \in StateChanges, resolved \in BOOLEAN,
          server \in Servers \cup {""} :
          /\ resolved <=> server # ""
          /\ resolved => change = "Added"
          /\ LET r == nm_callback(node_managers, mm_calls, name, change, resolved, server)
             IN  /\ node_managers' = r.table
                 /\ mm_calls' = r.calls
                 /\ zc_last' = [n |-> zc_last.n + 1, name |-> name, change |-> change,
                                resolved |-> resolved, server |-> server,
                                error |-> r.error]
    /\ UNCHANGED <<nmvars, appvars, enable_zeroconf, handlers, terminating, ioloop, proc, child,
                   nextPid, rest, stopf, nm_service,
                   mm_browser>>

\* ----------------------------------------------------------------------
\* DfmsDaemon: properties
\* ----------------------------------------------------------------------

\* the step in which the handler of a POST answers or goes on to start
PostChecked == rest.pc = "check" /\ rest.method = "POST" /\ rest' # rest

\* the process of each kind that was spawned first
FirstSpawned(k) == CHOOSE p \in Spawned(k) : \A q \in Spawned(k) : p <= q

AtMostOneSpawned ==
    \A k \in Kinds :
        /\ Cardinality(Spawned(k)) <= 1
        /\ (proc[k] # NoProc /\ Spawned(k) # {}) => proc[k] = FirstSpawned(k)

\* C6 as stated: every POST to a kind whose process is recorded is answered
\* 409 and spawns nothing, and at most one child per kind is ever spawned,
\* the recorded one being the first.
C6_Original ==
    /\ [][(PostChecked /\ proc[rest.kind] # NoProc)
          => (rest'.pc = "done" /\ rest'.status = 409
              /\ proc' = proc /\ child' = child)]_vars
    /\ []AtMostOneSpawned

\* C6: a POST to a kind whose process is recorded spawns nothing and is
\* answered 409, except a POST to /managers/dataisland without a JSON body
\* holding "nodes", which is answered 400; without stop calls at most one
\* child per kind is ever spawned, and the recorded process is the first.
C6_DuplicateStartRefused ==
    /\ [][(PostChecked /\ proc[rest.kind] # NoProc)
          => (/\ rest'.pc = "done"
              /\ rest'.status = IF rest.kind = "dim" /\ rest.body # "nodes"
                                THEN 400 ELSE 409
              /\ proc' = proc /\ child' = child /\ nextPid' = nextPid)]_vars
    /\ []AtMostOneSpawned

\* a POST was answered 409 for a process the daemon started on a request
C6_Witness ==
    /\ rest.pc = "done" /\ rest.method = "POST" /\ rest.status = 409
    /\ proc[rest.kind] # NoProc
    /\ child[proc[rest.kind]].inherited

\* what _stop_manager has done to a child when it has gone through
StopLogs ==
    { <<"SIGTERM", "join(timeout): ended">>,
      <<"SIGTERM", "join(timeout): alive", "SIGKILL", "join()">> }

IsPrefix(s, t) == Len(s) <= Len(t) /\ \A i \in DOMAIN s : s[i] = t[i]

\* C7: in stop(), each recorded child is sent SIGTERM, then joined with the
\* timeout, then sent SIGKILL only if it was alive after that join and joined
\* again; when stop() returns the three slots are empty and no child that was
\* recorded is alive.
C7_StopOrder ==
    /\ [](stopf.origin = "stop" =>
            /\ \E l \in StopLogs : IsPrefix(stopf.log, l)
            /\ stopf.pc = "clear" => stopf.log \in StopLogs)
    /\ [][(stopf.origin = "stop" /\ stopf.pc = "join" /\ stopf'.pc # "join")
          => LET alive == child[proc[Head(stopf.kinds)]].state = "alive"
             IN  /\ alive => stopf'.log = <<"SIGTERM", "join(timeout): alive">>
                 /\ ~alive => stopf'.log = <<"SIGTERM", "join(timeout): ended">>]_vars
    /\ [][(stopf.origin = "stop" /\ stopf.pc = "post" /\ stopf'.pc = "idle")
          => /\ \A k \in Kinds : proc'[k] = NoProc
             /\ \A p \in stopf.recorded : child'[p].state = "dead"]_vars

\* stop() is about to return after it had to kill the Master Manager, with
\* two children recorded when it was called
C7_Witness ==
    /\ stopf.origin = "stop" /\ stopf.pc = "post" /\ Len(stopf.kinds) = 1
    /\ stopf.log = <<"SIGTERM", "join(timeout): alive", "SIGKILL", "join()">>
    /\ Cardinality(stopf.recorded) = 2

\* C8: every stop call (stop(), and stopNM, stopDIM, stopMM with their
\* default arguments) eventually ends.
C8_StopEventuallyEnds == (stopf.pc # "idle") ~> (stopf.pc = "idle")

\* C9: no child process ever runs the daemon's handle_signal up to
\* DfmsDaemon.stop().
C9_ChildNeverRunsDaemonStop == \A p \in DOMAIN child : ~child[p].ran_stop

\* the step in which a notification is delivered
Notified == zc_last'.n = zc_last.n + 1

ZeroconfDisabled ==
    ~enable_zeroconf => (nm_service = "none" /\ mm_browser = "none" /\ mm_calls = <<>>)

\* the Node Manager was started and startNM is over
NMStarted ==
    /\ proc["nm"] # NoProc
    /\ ~(rest.kind = "nm" /\ rest.pc \in {"assign", "start", "log", "zeroconf"})

StopReturned ==
    /\ stopf.origin = "stop" /\ stopf.pc = "post" /\ Len(stopf.kinds) = 1
    /\ stopf'.pc = "idle"

NoChildAlive == \A p \in DOMAIN child : child[p].state # "alive"

\* C27 as stated: when stop() returns no child of the daemon is alive, and
\* from then on none is; the handler may run at any point of a REST start.
C27_NoChildAfterStop ==
    /\ [][StopReturned => NoChildAlive']_vars
    /\ [][(terminating /\ stopf.pc = "idle" /\ NoChildAlive) => NoChildAlive']_vars

\* the step in which a GET is answered
GetChecked == rest.pc = "check" /\ rest.method = "GET" /\ rest' # rest

\* a process is recorded for the kind and was started
Started(k) == proc[k] # NoProc /\ child[proc[k]].state # "unstarted"

\* the POST carries what its handler needs before _rest_start_manager
WellFormed(r) == r.kind = "dim" => r.body = "nodes"

\* what C28 says of GET, of the slots and of the start that follows a POST:
\* GET returns the recorded pid, alive or not, and 404 for an empty slot;
\* only _stop_manager empties a slot; the start records and forks a new child
RecordedOnly ==
    /\ [][(GetChecked /\ Started(rest.kind))
          => (rest'.pc = "done" /\ rest'.status = 200
              /\ rest'.pid = proc[rest.kind])]_vars
    /\ [][(GetChecked /\ proc[rest.kind] = NoProc)
          => (rest'.pc = "done" /\ rest'.status = 404)]_vars
    /\ [][\A k \in Kinds : (proc[k] # NoProc /\ proc'[k] = NoProc)
          => (stopf.pc = "clear" /\ Head(stopf.kinds) = k)]_vars
    /\ [][(rest.pc = "assign" /\ rest'.pc = "start")
          => (proc'[rest.kind] \notin DOMAIN child
              /\ proc'[rest.kind] \in DOMAIN child')]_vars
    /\ [][(rest.pc = "start" /\ rest'.pc = "log")
          => child'[proc[rest.kind]].state = "alive"]_vars

\* C28 as stated: while a started process is recorded for a kind, alive or
\* not, every POST for the kind is answered 409 and GET returns its pid;
\* only the stop operation empties the slot; with the slot empty GET is
\* answered 404 and a POST starts a new child.
C28_Original ==
    /\ RecordedOnly
    /\ [][(PostChecked /\ Started(rest.kind))
          => (rest'.pc = "done" /\ rest'.status = 409
              /\ proc' = proc /\ child' = child)]_vars
    /\ [][(PostChecked /\ proc[rest.kind] = NoProc) => rest'.pc = "assign"]_vars

\* C28: as stated for GET and for the slots; a POST to /managers/dataisland
\* without a JSON body holding "nodes" is answered 400 whatever the slot
\* holds and starts nothing; every other POST is answered 409 while a
\* started process is recorded, alive or not, and starts a new child when
\* the slot is empty.
C28_RecordedNotAlive ==
    /\ RecordedOnly
    /\ [][(PostChecked /\ Started(rest.kind))
          => (/\ rest'.pc = "done"
              /\ rest'.status = IF WellFormed(rest) THEN 409 ELSE 400
              /\ proc' = proc /\ child' = child)]_vars
    /\ [][(PostChecked /\ proc[rest.kind] = NoProc)
          => IF WellFormed(rest) THEN rest'.pc = "assign"
             ELSE rest'.pc = "done" /\ rest'.status = 400 /\ proc' = proc]_vars

\* a POST is answered 409 for a child that has exited on its own and that
\* was started after stopNM/stopDIM/stopMM had emptied the slot of an
\* earlier child of the kind
C28_Witness ==
    /\ rest.pc = "done" /\ rest.method = "POST" /\ rest.status = 409
    /\ proc[rest.kind] = 2 /\ child[2].state = "dead"
    /\ child[1].kind = rest.kind /\ child[1].state = "dead"
    /\ ~terminating

\* no request and no stop call is in progress
Quiescent == rest.pc = "idle" /\ stopf.pc = "idle"

\* the step of stopNM that calls utils.deregister_service
Deregisters ==
    /\ stopf.pc = "post" /\ Head(stopf.kinds) = "nm" /\ stopf' # stopf
    /\ enable_zeroconf /\ nm_service # "none"

\* C29 as stated: with zeroconf enabled, between calls and with no shutdown
\* under way the Node Manager service is advertised iff a Node Manager process is recorded, and
\* stopNM deregisters only a service that is registered.
C29_AdvertisedIffRecorded ==
    /\ [](Quiescent /\ ~terminating /\ enable_zeroconf
            => (nm_service = "advertised" <=> proc["nm"] # NoProc))
    /\ [][Deregisters => nm_service = "advertised"]_vars


C31_DataIslandLaunched ==
    /\ [][(PostChecked /\ rest.kind = "dim" /\ rest.body # "nodes")
          => (rest'.pc = "done" /\ rest'.status = 400
              /\ proc' = proc /\ child' = child)]_vars
    /\ [][(PostChecked /\ rest.kind = "dim" /\ rest.body = "nodes"
           /\ proc["dim"] = NoProc)
          => rest'.pc = "assign"]_vars
    /\ [][ChildStep => \A p \in DOMAIN child :
                          child[p].state = "alive" => child'[p].state = "alive"]_vars


\* ======================================================================
\* Native-library applications (dfms/apps/dynlib.py)
\* ======================================================================

\* AppDROPStates
AppStates == {"NOT_RUN", "RUNNING", "FINISHED", "ERROR", "CANCELLED"}

\* what initialize() is given: whether kwargs holds 'lib', and what the
\* library turns out to be
LibArgs ==
    [has_lib : BOOLEAN, loadable : BOOLEAN, has_init : BOOLEAN, has_run : BOOLEAN,
     init_ret : {0, 1, -1}]

NoLibArgs == [has_lib |-> FALSE, loadable |-> FALSE, has_init |-> FALSE,
              has_run |-> FALSE, init_ret |-> 0]

Call(ev, i) == [ev |-> ev, i |-> i]

\* mutant: the loop over expected_functions is missing
DynlibAppBase_initialize_unchecked(kw) ==
    IF ~kw.has_lib
    THEN [err |-> "InvalidDropException", reason |-> "library not specified",
          calls |-> <<>>]
    ELSE IF ~kw.loadable
    THEN [err |-> "OSError", reason |-> "", calls |-> <<Call("LoadLibrary", 0)>>]
    ELSE IF kw.has_init /\ kw.init_ret # 0
    THEN [err |-> "InvalidDropException", reason |-> "failed during initialization",
          calls |-> <<Call("LoadLibrary", 0), Call("init", 0)>>]
    ELSE [err |-> "", reason |-> "",
          calls |-> <<Call("LoadLibrary", 0), Call("init", 0)>>]

\* DynlibAppBase.initialize(**kwargs)
DynlibAppBase_initialize(kw) ==
    IF ~kw.has_lib
    THEN [err |-> "InvalidDropException", reason |-> "library not specified",
          calls |-> <<>>]
    ELSE IF ~kw.loadable
    THEN [err |-> "OSError", reason |-> "", calls |-> <<Call("LoadLibrary", 0)>>]
    ELSE IF ~kw.has_init
    THEN [err |-> "InvalidDropException", reason |-> "doesn't have function init",
          calls |-> <<Call("LoadLibrary", 0), Call("hasattr init", 0)>>]
    ELSE IF ~kw.has_run
    THEN [err |-> "InvalidDropException", reason |-> "doesn't have function run",
          calls |-> <<Call("LoadLibrary", 0), Call("hasattr init", 0),
                      Call("hasattr run", 0)>>]
    ELSE IF kw.init_ret # 0
    THEN [err |-> "InvalidDropException", reason |-> "failed during initialization",
          calls |-> <<Call("LoadLibrary", 0), Call("hasattr init", 0),
                      Call("hasattr run", 0), Call("init", 0)>>]
    ELSE [err |-> "", reason |-> "",
          calls |-> <<Call("LoadLibrary", 0), Call("hasattr init", 0),
                      Call("hasattr run", 0), Call("init", 0)>>]

\* DynlibStreamApp.initialize._running
DynlibStreamApp_running(a) ==
    [a EXCEPT !.execStatus = "RUNNING",
              !.entered_running = @ + (IF a.execStatus # "RUNNING" THEN 1 ELSE 0),
              !.callbacks = @ + 1]

\* DynlibStreamApp.initialize._done(status)
DynlibStreamApp_done(a, status) ==
    [a EXCEPT !.execStatus = status,
              !.entered_finished = @ + (IF a.execStatus # "FINISHED" /\ status = "FINISHED"
                                        THEN 1 ELSE 0),
              !.notified = @ + 1,
              !.callbacks = @ + 1]

\* DynlibApp.run, the loop that opens the inputs: opens[i] tells whether
\* open() of input i succeeds; the loop ends at the first open() that raises
RECURSIVE OpenInputs(_, _)
OpenInputs(opens, i) ==
    IF i > Len(opens) THEN [err |-> "", calls |-> <<>>]
    ELSE IF ~opens[i] THEN [err |-> "open", calls |-> <<Call("open raises", i)>>]
    ELSE LET r == OpenInputs(opens, i + 1)
         IN  [err |-> r.err, calls |-> <<Call("open", i)>> \o r.calls]

\* the inputs in opened_info
Opened(calls) == {calls[j].i : j \in {k \in DOMAIN calls : calls[k].ev = "open"}}

\* DynlibApp.run: the finally clause closes every entry of opened_info
CloseInputs(calls) ==
    LET RECURSIVE Close(_)
        Close(j) == IF j > Len(calls) THEN <<>>
                    ELSE (IF calls[j].ev = "open" THEN <<Call("close", calls[j].i)>>
                          ELSE <<>>) \o Close(j + 1)
    IN  Close(1)

\* DynlibApp.run()
DynlibApp_run(opens, lib_raises) ==
    LET o == OpenInputs(opens, 1) IN
    IF o.err # "" THEN [err |-> "open", calls |-> o.calls]
    ELSE [err |-> IF lib_raises THEN "lib.run" ELSE "",
          calls |-> o.calls \o <<Call("lib.run", 0)>> \o CloseInputs(o.calls)]

\* CDlgApp(None, uid, oid, None, 0, None, 0, None, 0, ...): the arrays of
\* the descriptor (a NULL pointer is an array without entries) and their
\* counts
NoCApp == [inputs |-> <<>>, n_inputs |-> 0,
           streaming_inputs |-> <<>>, n_streaming_inputs |-> 0,
           outputs |-> <<>>, n_outputs |-> 0]

\* no application object yet; outputs is what the drop itself holds
NoApp == [cls |-> "", built |-> "no", execStatus |-> "NOT_RUN", entered_running |-> 0,
          entered_finished |-> 0, notified |-> 0, callbacks |-> 0,
          outputs |-> <<>>, c_app |-> NoCApp]

\* AppDROP.addOutput(outputDrop, back): the edge is registered once
AppDROP_addOutput(outs, o) ==
    IF \E i \in DOMAIN outs : outs[i] = o THEN outs ELSE Append(outs, o)

\* DynlibAppBase.addOutput(outputDrop, back)
DynlibAppBase_addOutput(a, o) ==
    [a EXCEPT !.outputs = AppDROP_addOutput(@, o),
              !.c_app.outputs = Append(@, o),
              !.c_app.n_outputs = @ + 1]

\* DynlibStreamApp.addInput(inputDrop, back)
DynlibStreamApp_addInput(a) == [a EXCEPT !.c_app.n_inputs = @ + 1]

\* DynlibStreamApp.addStreamingInput(streamingInputDrop, back)
DynlibStreamApp_addStreamingInput(a) ==
    [a EXCEPT !.c_app.n_streaming_inputs = @ + 1]

NoDynCall == [op |-> "none", kw |-> NoLibArgs, opens |-> <<>>, lib_raises |-> FALSE,
              err |-> "", reason |-> "", calls |-> <<>>]

DynIdle ==
    /\ dl_app = NoApp
    /\ dl_last = NoDynCall

\* the sequences of open() outcomes for up to MaxInputs inputs
OpenChoices == UNION {[1..n -> BOOLEAN] : n \in 0..MaxInputs}

\* DynlibStreamApp(oid, uid, **kwargs) or DynlibApp(oid, uid, **kwargs): the
\* constructor calls initialize(**kwargs); when that raises there is no object
DynConstruct ==
    /\ dl_app.built = "no"
    /\ \E cls \in {"DynlibStreamApp", "DynlibApp"}, kw \in LibArgs :
          LET r == DynlibAppBase_initialize(kw) IN
          /\ dl_app' = [NoApp EXCEPT !.cls = cls,
                                     !.built = IF r.err = "" THEN "ok" ELSE "failed"]
          /\ dl_last' = [NoDynCall EXCEPT !.op = "initialize", !.kw = kw, !.err = r.err,
                                          !.reason = r.reason, !.calls = r.calls]
    /\ UNCHANGED <<nmvars, dmvars, mgr, cli, driver, templates, engvars>>

\* the native code of a streaming application calls running()
DynRunning ==
    /\ dl_app.cls = "DynlibStreamApp" /\ dl_app.built = "ok"
    /\ dl_app.callbacks < MaxCallbacks
    /\ dl_app' = DynlibStreamApp_running(dl_app)
    /\ dl_last' = [NoDynCall EXCEPT !.op = "running"]
    /\ UNCHANGED <<nmvars, dmvars, mgr, cli, driver, templates, engvars>>

\* the native code of a streaming application calls done(status)
DynDone ==
    /\ dl_app.cls = "DynlibStreamApp" /\ dl_app.built = "ok"
    /\ dl_app.callbacks < MaxCallbacks
    /\ \E status \in AppStates :
          /\ dl_app' = DynlibStreamApp_done(dl_app, status)
          /\ dl_last' = [NoDynCall EXCEPT !.op = "done", !.reason = status]
    /\ UNCHANGED <<nmvars, dmvars, mgr, cli, driver, templates, engvars>>

\* the engine runs a barrier application once: RUNNING, run(), then FINISHED,
\* or ERROR when run() raises
DynRun ==
    /\ dl_app.cls = "DynlibApp" /\ dl_app.built = "ok"
    /\ dl_app.execStatus = "NOT_RUN"
    /\ \E opens \in OpenChoices, lib_raises \in BOOLEAN :
          LET r == DynlibApp_run(opens, lib_raises) IN
          /\ dl_app' = [dl_app EXCEPT !.execStatus = IF r.err = "" THEN "FINISHED"
                                                     ELSE "ERROR",
                                      !.c_app.inputs = IF r.err = "open" THEN @
                                                       ELSE [i \in DOMAIN opens |-> i],
                                      !.c_app.n_inputs = IF r.err = "open" THEN @
                                                         ELSE Len(opens)]
          /\ dl_last' = [NoDynCall EXCEPT !.op = "run", !.opens = opens,
                                          !.lib_raises = lib_raises, !.err = r.err,
                                          !.calls = r.calls]
    /\ UNCHANGED <<nmvars, dmvars, mgr, cli, driver, templates, engvars>>

\* addOutput is called on the application
DynAddOutput ==
    /\ dl_app.built = "ok"
    /\ dl_app.c_app.n_outputs < MaxAdds
    /\ \E o \in 1..MaxOutputs :
          /\ dl_app' = DynlibAppBase_addOutput(dl_app, o)
          /\ dl_last' = [NoDynCall EXCEPT !.op = "addOutput"]
    /\ UNCHANGED <<nmvars, dmvars, mgr, cli, driver, templates, engvars>>

\* addInput or addStreamingInput is called on a streaming application
DynAddInput ==
    /\ dl_app.cls = "DynlibStreamApp" /\ dl_app.built = "ok"
    /\ \E streaming \in BOOLEAN :
          IF streaming
          THEN /\ dl_app.c_app.n_streaming_inputs < MaxInputs
               /\ dl_app' = DynlibStreamApp_addStreamingInput(dl_app)
               /\ dl_last' = [NoDynCall EXCEPT !.op = "addStreamingInput"]
          ELSE /\ dl_app.c_app.n_inputs < MaxInputs
               /\ dl_app' = DynlibStreamApp_addInput(dl_app)
               /\ dl_last' = [NoDynCall EXCEPT !.op = "addInput"]
    /\ UNCHANGED <<nmvars, dmvars, mgr, cli, driver, templates, engvars>>

\* dataWritten(uid, data) or dropCompleted(uid, drop_state) of a streaming
\* application: the descriptor goes to lib.data_written / lib.drop_completed
DynEvent ==
    /\ dl_app.cls = "DynlibStreamApp" /\ dl_app.built = "ok"
    /\ \E op \in {"data_written", "drop_completed"} :
          dl_last' = [NoDynCall EXCEPT !.op = op, !.calls = <<Call("lib." \o op, 0)>>]
    /\ UNCHANGED dl_app
    /\ UNCHANGED <<nmvars, dmvars, mgr, cli, driver, templates, engvars>>

DynlibNext ==
    \/ DynConstruct
    \/ DynRunning
    \/ DynDone
    \/ DynRun

\* the application is wired to its drops and handed its events
DescriptorNext ==
    \/ DynConstruct
    \/ DynRun
    \/ DynAddOutput
    \/ DynAddInput
    \/ DynEvent

\* ----------------------------------------------------------------------
\* Native-library applications: properties
\* ----------------------------------------------------------------------

\* C11: whatever callbacks the native code of a DynlibStreamApp makes,
\* execStatus enters RUNNING at most once and FINISHED at most once, and the
\* outputs are notified that the application finished at most once.
C11_RunningFinishedOnce ==
    /\ dl_app.entered_running <= 1
    /\ dl_app.entered_finished <= 1
    /\ dl_app.notified <= 1

\* C12: once execStatus is ERROR no callback of the native code changes it.
C12_ErrorIsFinal ==
    [][dl_app.execStatus = "ERROR" => dl_app'.execStatus = "ERROR"]_vars

\* the number of calls of a kind made for input i
CallsFor(calls, ev, i) ==
    Cardinality({j \in DOMAIN calls : calls[j].ev = ev /\ calls[j].i = i})

\* C16: when DynlibApp.run has returned or raised, every input that was
\* opened has been closed exactly once.
C16_EveryDescriptorClosed ==
    dl_last.op = "run"
    => \A i \in DOMAIN dl_last.opens :
          CallsFor(dl_last.calls, "close", i) = CallsFor(dl_last.calls, "open", i)

\* position of the first call of a kind, 0 when there is none
FirstCall(calls, ev) ==
    IF \E j \in DOMAIN calls : calls[j].ev = ev
    THEN CHOOSE j \in DOMAIN calls :
            calls[j].ev = ev /\ \A k \in DOMAIN calls : calls[k].ev = ev => j <= k
    ELSE 0

\* C17: initialize fails with InvalidDropException when 'lib' is missing, when
\* the library lacks init or run, or when init returns non-zero, checked in
\* that order; init is not called on a library that lacks an entry point; an
\* application whose initialize failed is never run.
C17_InvalidLibrary ==
    /\ dl_last.op = "initialize" =>
         LET kw == dl_last.kw
             calls == dl_last.calls
         IN  /\ ~kw.has_lib =>
                   /\ dl_last.err = "InvalidDropException"
                   /\ dl_last.reason = "library not specified"
                   /\ calls = <<>>
             /\ (kw.has_lib /\ kw.loadable /\ ~(kw.has_init /\ kw.has_run)) =>
                   /\ dl_last.err = "InvalidDropException"
                   /\ dl_last.reason \in {"doesn't have function init",
                                          "doesn't have function run"}
                   /\ FirstCall(calls, "init") = 0
             /\ (kw.has_lib /\ kw.loadable /\ kw.has_init /\ kw.has_run
                 /\ kw.init_ret # 0) =>
                   /\ dl_last.err = "InvalidDropException"
                   /\ dl_last.reason = "failed during initialization"
             /\ FirstCall(calls, "init") # 0 =>
                   /\ 0 < FirstCall(calls, "hasattr init")
                   /\ FirstCall(calls, "hasattr init") < FirstCall(calls, "hasattr run")
                   /\ FirstCall(calls, "hasattr run") < FirstCall(calls, "init")
             /\ dl_last.err # "" <=> dl_app.built = "failed"
    /\ dl_app.built = "failed" =>
         /\ dl_last.op = "initialize"
         /\ dl_app.execStatus = "NOT_RUN" /\ dl_app.callbacks = 0
    /\ dl_last.op \in {"run", "running", "done"} => dl_app.built = "ok"

\* initialize failed on a library with init but no run, whose init would
\* have returned non-zero
C17_Witness ==
    /\ dl_last.op = "initialize"
    /\ dl_last.kw.has_lib /\ dl_last.kw.loadable
    /\ dl_last.kw.has_init /\ ~dl_last.kw.has_run /\ dl_last.kw.init_ret # 0
    /\ dl_last.err = "InvalidDropException"

\* C33 as stated: after any addOutput calls the descriptor's n_outputs is
\* the number of entries of its outputs array and the number of outputs the
\* drop holds, and each call keeps the earlier entries of the array, in
\* order.
C33_OutputsCounted ==
    /\ [](/\ dl_app.c_app.n_outputs = Len(dl_app.c_app.outputs)
          /\ dl_app.c_app.n_outputs = Len(dl_app.outputs))
    /\ [][dl_app.built = "ok" =>
            IsPrefix(dl_app.c_app.outputs, dl_app'.c_app.outputs)]_vars

\* the descriptor is with the native code: init, run, data_written or
\* drop_completed was called with it
HandedOver ==
    \E j \in DOMAIN dl_last.calls :
        dl_last.calls[j].ev \in {"init", "lib.run", "lib.data_written",
                                 "lib.drop_completed"}

\* C34 as stated: whenever the descriptor is handed to the native code its
\* n_inputs is the number of entries of inputs and its n_streaming_inputs
\* the number of entries of streaming_inputs, for both classes.
C34_InputsCounted ==
    HandedOver =>
        /\ dl_app.c_app.n_inputs = Len(dl_app.c_app.inputs)
        /\ dl_app.c_app.n_streaming_inputs = Len(dl_app.c_app.streaming_inputs)

\* ======================================================================
\* Template enumeration (dfms/manager/node_manager.py, _functionAsTemplate)
\* ======================================================================

ArgNames == <<"a1", "a2", "a3", "a4", "a5">>

DefaultValues == {"x", "y", "z"}

\* what inspect.getargspec, inspect.getmodule and __name__ give for a
\* function: n arguments, of which the last Len(defaults) have a default
TemplateFunctions ==
    {[module |-> "dfms.manager.repository", name |-> "complex_graph",
      args |-> SubSeq(ArgNames, 1, n), defaults |-> d] :
        n \in 0..MaxArgs, d \in UNION {[1..k -> DefaultValues] : k \in 0..MaxArgs}}

Reverse(s) == [i \in 1..Len(s) |-> s[Len(s) + 1 - i]]

\* an entry of argsList: {'name': arg} or {'name': arg, 'default': value}
ArgEntry(name, has_default, default) ==
    [name |-> name, has_default |-> has_default, default |-> default]

\* mutant: args and defaults are paired from the front
functionAsTemplate_front(f) ==
    [name |-> <<f.module, f.name>>,
     args |-> [i \in 1..Len(f.args) |->
                 IF i > Len(f.defaults) THEN ArgEntry(f.args[i], FALSE, "")
                 ELSE ArgEntry(f.args[i], TRUE, f.defaults[i])]]

\* _functionAsTemplate(f): i of the code's enumerate is i - 1 here
functionAsTemplate(f) ==
    LET defaults == Reverse(f.defaults)
        reversed == Reverse(f.args)
    IN  [name |-> <<f.module, f.name>>,
         args |-> [i \in 1..Len(reversed) |->
                     IF i - 1 >= Len(defaults) THEN ArgEntry(reversed[i], FALSE, "")
                     ELSE ArgEntry(reversed[i], TRUE, defaults[i])]]

NoEntry == [name |-> <<>>, args |-> <<>>]

TplIdle == templates = [f |-> [module |-> "", name |-> "", args |-> <<>>, defaults |-> <<>>],
                  done |-> FALSE, entry |-> NoEntry]

\* a function of the repository: Python allows no more defaults than arguments
TemplateChosen ==
    \E f \in TemplateFunctions :
        /\ Len(f.defaults) <= Len(f.args)
        /\ templates = [f |-> f, done |-> FALSE, entry |-> NoEntry]

\* NodeManager.getTemplates: templates.append(_functionAsTemplate(f))
GetTemplates ==
    /\ ~templates.done
    /\ templates.f.name # ""
    /\ templates' = [templates EXCEPT !.done = TRUE, !.entry = functionAsTemplate(templates.f)]
    /\ UNCHANGED <<nmvars, dmvars, mgr, cli, driver, dlvars, engvars>>

\* ----------------------------------------------------------------------
\* Template enumeration: properties
\* ----------------------------------------------------------------------

\* C19: the entry of a function with arguments a1..an, the last k of them
\* with defaults d1..dk, is named <module>.<function> and has exactly one
\* args entry per argument; the entry of a_i has a default iff i > n - k,
\* and then the default is d_(i-(n-k)).
C19_TemplateEntry ==
    templates.done =>
       LET f == templates.f
           n == Len(f.args)
           k == Len(f.defaults)
           e == templates.entry
       IN  /\ e.name = <<f.module, f.name>>
           /\ Len(e.args) = n
           /\ \A i \in 1..n :
                 /\ Cardinality({j \in DOMAIN e.args : e.args[j].name = f.args[i]}) = 1
                 /\ \A j \in DOMAIN e.args :
                       e.args[j].name = f.args[i] =>
                          /\ e.args[j].has_default <=> i > n - k
                          /\ i > n - k => e.args[j].default = f.defaults[i - (n - k)]

\* three arguments, the last two with different defaults
C19_Witness ==
    /\ templates.done
    /\ Len(templates.f.args) = 3 /\ Len(templates.f.defaults) = 2
    /\ templates.f.defaults[1] # templates.f.defaults[2]

\* ======================================================================
\* Execution engine, the Luigi driver (dfms/luigi_int.py) and the fan-in
\* test graph (test/integrate/chiles/chilesdo.py)
\* ======================================================================

\* uids are <<name, index>>
Uid(name, i) == <<name, i>>

ExecutionModes == {"DROP", "EXTERNAL"}

Range(s) == {s[i] : i \in DOMAIN s}

\* mutant: only the first split_out is added to Clean's inputs
ChilesGraph_one ==
    LET splits == {Uid("sp", i) : i \in 1..NumVis}
        all == splits \cup {Uid("cl", 0), Uid("flux", 0)}
        data == {Uid("vis_in", i) : i \in 1..NumVis}
                \cup {Uid("split_out", i) : i \in 1..NumVis}
                \cup {Uid("image_out", 0), Uid("flux_out", 0)}
    IN  [apps    |-> all,
         data    |-> data,
         inputs  |-> [a \in all |->
                        IF a \in splits THEN <<Uid("vis_in", a[2])>>
                        ELSE IF a = Uid("cl", 0) THEN <<Uid("split_out", 1)>>
                        ELSE <<Uid("image_out", 0)>>],
         outputs |-> [a \in all |->
                        IF a \in splits THEN <<Uid("split_out", a[2])>>
                        ELSE IF a = Uid("cl", 0) THEN <<Uid("image_out", 0)>>
                        ELSE <<Uid("flux_out", 0)>>],
         mode    |-> [d \in data |-> "DROP"],
         roots   |-> [i \in 1..NumVis |-> Uid("vis_in", i)],
         leaf    |-> Uid("flux_out", 0)]

\* chilesdo.py __main__: vis_in -> Split -> split_out (one per entry of VIS),
\* every split_out -> Clean -> image_out -> SourceFlux -> flux_out
ChilesGraph ==
    LET splits == {Uid("sp", i) : i \in 1..NumVis}
        all == splits \cup {Uid("cl", 0), Uid("flux", 0)}
    IN  [apps    |-> all,
         data    |-> {Uid("vis_in", i) : i \in 1..NumVis}
                     \cup {Uid("split_out", i) : i \in 1..NumVis}
                     \cup {Uid("image_out", 0), Uid("flux_out", 0)},
         inputs  |-> [a \in all |->
                        IF a \in splits THEN <<Uid("vis_in", a[2])>>
                        ELSE IF a = Uid("cl", 0)
                             THEN [i \in 1..NumVis |-> Uid("split_out", i)]
                        ELSE <<Uid("image_out", 0)>>],
         outputs |-> [a \in all |->
                        IF a \in splits THEN <<Uid("split_out", a[2])>>
                        ELSE IF a = Uid("cl", 0) THEN <<Uid("image_out", 0)>>
                        ELSE <<Uid("flux_out", 0)>>],
         mode    |-> [d \in {Uid("vis_in", i) : i \in 1..NumVis}
                            \cup {Uid("split_out", i) : i \in 1..NumVis}
                            \cup {Uid("image_out", 0), Uid("flux_out", 0)} |-> "DROP"],
         roots   |-> [i \in 1..NumVis |-> Uid("vis_in", i)],
         leaf    |-> Uid("flux_out", 0)]

\* a graph for RunDataObjectTask: one application with one output and the
\* given execution mode on each of its inputs
LuigiGraph(modes) ==
    LET ins == [i \in DOMAIN modes |-> Uid("input", i)]
    IN  [apps    |-> {Uid("app", 0)},
         data    |-> Range(ins) \cup {Uid("output", 0)},
         inputs  |-> [a \in {Uid("app", 0)} |-> ins],
         outputs |-> [a \in {Uid("app", 0)} |-> <<Uid("output", 0)>>],
         mode    |-> [d \in Range(ins) \cup {Uid("output", 0)} |->
                        IF d[1] = "input" THEN modes[d[2]] ELSE "DROP"],
         roots   |-> ins,
         leaf    |-> Uid("output", 0)]

NoGraph ==
    [apps |-> {}, data |-> {}, inputs |-> <<>>, outputs |-> <<>>, mode |-> <<>>,
     roots |-> <<>>, leaf |-> Uid("", 0)]

Consumers(g, d) == {a \in g.apps : d \in Range(g.inputs[a])}

\* engine-side record of an application: its execStatus, the completions it
\* was told of, its one-shot latch, and how often it was submitted
NewApp == [execStatus |-> "NOT_RUN", count |-> 0, fired |-> FALSE, runs |-> 0]

\* the transition that brings the count to the input cardinality fires
ShouldFire(count, cardinality) == count = cardinality

\* mutant: no latch, every completion from the last input on fires
dataObjectCompleted_nolatch(g, a, rec) ==
    LET n == rec.count + 1 IN
    IF n >= Len(g.inputs[a])
    THEN [rec EXCEPT !.count = n, !.fired = TRUE, !.runs = @ + 1,
                     !.execStatus = "RUNNING"]
    ELSE [rec EXCEPT !.count = n]

\* the application is told that one of its inputs completed
dataObjectCompleted(g, a, rec) ==
    LET n == rec.count + 1 IN
    IF ~rec.fired /\ ShouldFire(n, Len(g.inputs[a]))
    THEN [rec EXCEPT !.count = n, !.fired = TRUE, !.runs = @ + 1,
                     !.execStatus = "RUNNING"]
    ELSE [rec EXCEPT !.count = n]

\* a completed drop tells its consumers only in the data-driven mode
Notifies(g, d) == g.mode[d] = "DROP"

\* drop d moves to COMPLETED and, data-driven, tells its consumers
setCompleted(g, e, d) ==
    [status |-> [e.status EXCEPT ![d] = "COMPLETED"],
     app    |-> [a \in g.apps |->
                    IF Notifies(g, d) /\ a \in Consumers(g, d)
                    THEN dataObjectCompleted(g, a, e.app[a])
                    ELSE e.app[a]]]

RECURSIVE setAllCompleted(_, _, _)
setAllCompleted(g, e, ds) ==
    IF ds = <<>> THEN e
    ELSE setAllCompleted(g, setCompleted(g, e, Head(ds)), Tail(ds))

\* the drops that end in ERROR once the drops of E are in ERROR
RECURSIVE ErrorClosure(_, _)
ErrorClosure(g, E) ==
    LET hit  == {a \in g.apps : Range(g.inputs[a]) \cap E # {}}
        more == E \cup UNION {Range(g.outputs[a]) : a \in hit}
    IN  IF more = E THEN E ELSE ErrorClosure(g, more)

\* application a failed: it and its unfinalized outputs move to ERROR, and
\* so does everything downstream, without running
setError(g, e, a) ==
    LET E == ErrorClosure(g, {d \in Range(g.outputs[a]) : e.status[d] # "COMPLETED"})
    IN  [status |-> [d \in g.data |-> IF d \in E THEN "ERROR" ELSE e.status[d]],
         app    |-> [x \in g.apps |->
                        IF x = a \/ Range(g.inputs[x]) \cap E # {}
                        THEN [e.app[x] EXCEPT !.execStatus = "ERROR", !.fired = TRUE]
                        ELSE e.app[x]]]

EngState == [status |-> drops, app |-> apps]

Engine(e) ==
    /\ drops' = e.status
    /\ apps' = e.app

\* expirationDate of a drop that does not expire
NoExpiration == -1

NoTask == [pc |-> "pending", execDO |-> FALSE, i |-> 0, calls |-> <<>>,
           expirationDate |-> NoExpiration, now |-> 0]

EngIdle ==
    /\ pg = NoGraph
    /\ drops = <<>>
    /\ apps = <<>>
    /\ main = 0
    /\ task = NoTask

Deployed(g) ==
    /\ pg = g
    /\ drops = [d \in g.data |-> "INITIALIZED"]
    /\ apps = [a \in g.apps |-> NewApp]
    /\ main = 0

\* chilesdo.py __main__ after the graph is wired
ChilesDeployed ==
    /\ Deployed(ChilesGraph)
    /\ task = NoTask

\* RunDataObjectTask.__init__ for the application of the graph
RunDataObjectTask_init(g, a) ==
    [pc     |-> "pending",
     execDO |-> \E i \in DOMAIN g.inputs[a] : g.mode[g.inputs[a][i]] = "EXTERNAL",
     i      |-> 0,
     calls  |-> [d \in Range(g.inputs[a]) |-> 0],
     expirationDate |-> NoExpiration,
     now    |-> 0]

\* the graph is deployed, its application expires at some time or never,
\* and the task of the application is constructed
LuigiDeployed ==
    \E n \in 1..MaxUpstream : \E modes \in [1..n -> ExecutionModes] :
    \E e \in {NoExpiration} \cup 1..MaxTime :
        /\ Deployed(LuigiGraph(modes))
        /\ task = [RunDataObjectTask_init(LuigiGraph(modes), Uid("app", 0))
                      EXCEPT !.expirationDate = e]

\* chilesdo.py __main__: for i in vis_in_a: i.setCompleted()
MainSetCompleted ==
    /\ pg = ChilesGraph
    /\ main < Len(pg.roots)
    /\ main' = main + 1
    /\ Engine(setCompleted(pg, EngState, pg.roots[main + 1]))
    /\ UNCHANGED <<nmvars, dmvars, mgr, cli, driver, dlvars, templates, pg, task>>

\* a root of the graph is completed by whoever feeds the graph
RootCompleted ==
    \E i \in DOMAIN pg.roots :
        /\ pg # ChilesGraph
        /\ drops[pg.roots[i]] = "INITIALIZED"
        /\ Engine(setCompleted(pg, EngState, pg.roots[i]))
        /\ UNCHANGED <<nmvars, dmvars, mgr, cli, driver, dlvars, templates, pg, main, task>>

\* run() of a barrier application returns: every output is set COMPLETED
AppRunReturns ==
    \E a \in pg.apps :
        /\ apps[a].execStatus = "RUNNING"
        /\ Engine(setAllCompleted(pg, [EngState EXCEPT !.app[a].execStatus = "FINISHED"],
                                  pg.outputs[a]))
        /\ UNCHANGED <<nmvars, dmvars, mgr, cli, driver, dlvars, templates, pg, main, task>>

\* mutant: run() raises after out.setCompleted()
AppRunRaises_late ==
    \E a \in pg.apps :
        /\ apps[a].execStatus = "RUNNING"
        /\ Engine(setError(pg, setAllCompleted(pg, EngState, pg.outputs[a]), a))
        /\ UNCHANGED <<nmvars, dmvars, mgr, cli, driver, dlvars, templates, pg, main, task>>

\* run() raises (Split.run, Clean.run: result != 0) before out.setCompleted()
AppRunRaises ==
    \E a \in pg.apps :
        /\ apps[a].execStatus = "RUNNING"
        /\ Engine(setError(pg, EngState, a))
        /\ UNCHANGED <<nmvars, dmvars, mgr, cli, driver, dlvars, templates, pg, main, task>>

AppRun == AppRunReturns \/ AppRunRaises

\* RunDataObjectTask.complete() of the task of drop d
complete(d) ==
    IF d \in pg.apps THEN apps[d].execStatus = "FINISHED" ELSE drops[d] = "COMPLETED"

\* Luigi runs a task once the tasks it requires are complete, and does not
\* run a task that is complete already
TaskStart ==
    /\ task.pc = "pending"
    /\ pg.apps = {Uid("app", 0)}
    /\ \A d \in Range(pg.inputs[Uid("app", 0)]) : complete(d)
    /\ task' = [task EXCEPT !.pc = IF complete(Uid("app", 0)) THEN "done"
                                   ELSE IF task.execDO THEN "execute" ELSE "monitor"]
    /\ UNCHANGED <<nmvars, dmvars, mgr, cli, driver, dlvars, templates, pg, drops, apps, main>>

\* mutant: run() returns after the call for the first input
TaskTrigger_first ==
    /\ task.pc = "execute"
    /\ LET a == Uid("app", 0)
           d == pg.inputs[a][task.i + 1]
       IN  /\ task' = [task EXCEPT !.i = @ + 1, !.calls[d] = @ + 1, !.pc = "done"]
           /\ apps' = [apps EXCEPT ![a] = dataObjectCompleted(pg, a, @)]
    /\ UNCHANGED <<nmvars, dmvars, mgr, cli, driver, dlvars, templates, pg, drops, main>>

\* RunDataObjectTask.run, execute mode: one dataObjectCompleted per input
TaskTrigger ==
    /\ task.pc = "execute"
    /\ LET a   == Uid("app", 0)
           ins == pg.inputs[a]
           d   == ins[task.i + 1]
       IN  /\ task' = [task EXCEPT !.i = @ + 1, !.calls[d] = @ + 1,
                                    !.pc = IF task.i + 1 = Len(ins) THEN "done" ELSE @]
           /\ apps' = [apps EXCEPT ![a] = dataObjectCompleted(pg, a, @)]
    /\ UNCHANGED <<nmvars, dmvars, mgr, cli, driver, dlvars, templates, pg, drops, main>>

\* time.time() moves on
Tick ==
    /\ pg.apps = {Uid("app", 0)}
    /\ task.now < MaxTime
    /\ task' = [task EXCEPT !.now = @ + 1]
    /\ UNCHANGED <<nmvars, dmvars, mgr, cli, driver, dlvars, templates, pg, drops, apps, main>>

\* mutant: the wait also ends when the drop has failed
TaskWake_terminal ==
    /\ task.pc = "monitor"
    /\ \/ apps[Uid("app", 0)].execStatus \in {"FINISHED", "ERROR"}
       \/ (task.expirationDate # NoExpiration /\ task.now >= task.expirationDate)
    /\ task' = [task EXCEPT !.pc = "done"]
    /\ UNCHANGED <<nmvars, dmvars, mgr, cli, driver, dlvars, templates, pg, drops, apps, main>>

\* RunDataObjectTask.run, monitor mode: self._evt.wait(timeout) returns once
\* setEvtOnCompleted has seen the drop's status become COMPLETED (the
\* listener is subscribed when the task is constructed), or when
\* expirationDate - now has passed; timeout is None for expirationDate -1
TaskWake ==
    /\ task.pc = "monitor"
    /\ \/ complete(Uid("app", 0))
       \/ (task.expirationDate # NoExpiration /\ task.now >= task.expirationDate)
    /\ task' = [task EXCEPT !.pc = "done"]
    /\ UNCHANGED <<nmvars, dmvars, mgr, cli, driver, dlvars, templates, pg, drops, apps, main>>

\* ----------------------------------------------------------------------
\* Execution engine: properties
\* ----------------------------------------------------------------------

TheApp == Uid("app", 0)

AllExternal == \A d \in Range(pg.inputs[TheApp]) : pg.mode[d] = "EXTERNAL"

\* C13: an application whose inputs are all EXTERNAL is not fired by its
\* inputs completing: it has fired only once the driver has made its call
\* for every input. The driver makes at most one call per input, none before
\* every input is COMPLETED, and when it is done it has made exactly one per
\* input and the application has fired exactly once.
C13_ExternalTrigger ==
    AllExternal =>
        LET ins == Range(pg.inputs[TheApp]) IN
        /\ apps[TheApp].fired => \A d \in ins : task.calls[d] = 1
        /\ \A d \in ins : task.calls[d] <= 1
        /\ (\E d \in ins : task.calls[d] > 0) => \A d \in ins : drops[d] = "COMPLETED"
        /\ apps[TheApp].runs <= 1
        /\ task.pc = "done" =>
              /\ \A d \in ins : task.calls[d] = 1
              /\ apps[TheApp].fired /\ apps[TheApp].runs = 1

\* two EXTERNAL inputs, the driver has finished and the application ran
C13_Witness ==
    /\ Len(pg.inputs[TheApp]) = 2
    /\ AllExternal
    /\ task.pc = "done"
    /\ apps[TheApp].execStatus = "FINISHED"
    /\ apps[TheApp].runs = 1

\* the application has inputs of both modes
MixedModes ==
    /\ \E d \in Range(pg.inputs[TheApp]) : pg.mode[d] = "DROP"
    /\ \E d \in Range(pg.inputs[TheApp]) : pg.mode[d] = "EXTERNAL"

\* C23: an application with DROP-mode and EXTERNAL-mode inputs that the Luigi
\* task drives is executed at most once, whatever the number of completions
\* it is told of, and once it has finished or failed it is not run again.
C23_MixedFiresOnce ==
    /\ [](MixedModes => apps[TheApp].runs <= 1)
    /\ [][(MixedModes /\ apps[TheApp].execStatus \in {"FINISHED", "ERROR"})
          => (/\ apps'[TheApp].execStatus = apps[TheApp].execStatus
              /\ apps'[TheApp].runs = apps[TheApp].runs)]_vars

\* the task has made its calls, the application was told of more completions
\* than it has inputs, and it ran once
C23_Witness ==
    /\ MixedModes
    /\ task.pc = "done" /\ task.i = Len(pg.inputs[TheApp])
    /\ apps[TheApp].count > Len(pg.inputs[TheApp])
    /\ apps[TheApp].execStatus = "FINISHED"
    /\ apps[TheApp].runs = 1

\* the step in which run() of the task returns in monitor mode
MonitorReturns == task.pc = "monitor" /\ task'.pc = "done"

Expired == task.expirationDate # NoExpiration /\ task.now >= task.expirationDate

\* C35: a task that monitors makes no dataObjectCompleted call and its steps
\* leave the application and the drops alone; its run() returns only when
\* the application is COMPLETED or when the expiration date, if there is
\* one, has passed.
C35_MonitorOnly ==
    /\ [](~task.execDO => \A d \in DOMAIN task.calls : task.calls[d] = 0)
    /\ [][(~task.execDO /\ task' # task) => (apps' = apps /\ drops' = drops)]_vars
    /\ [][MonitorReturns => (complete(TheApp) \/ Expired)]_vars

\* run() returned at the expiration date while the application was still
\* running
C35_Witness ==
    /\ ~task.execDO /\ task.pc = "done"
    /\ apps[TheApp].execStatus = "RUNNING"
    /\ task.now = task.expirationDate

\* C36 as stated: in monitor mode run() eventually returns once the
\* monitored drop is COMPLETED or in ERROR, with or without an expiration
\* date.
C36_MonitorReturns ==
    (task.pc = "monitor" /\ apps[TheApp].execStatus \in {"FINISHED", "ERROR"})
        ~> (task.pc = "done")

Ran(a) == apps[a].runs > 0

InputsCompleted(a) == \A d \in Range(pg.inputs[a]) : drops[d] = "COMPLETED"

RootsCompleted == \A i \in DOMAIN pg.roots : drops[pg.roots[i]] = "COMPLETED"

Failed(a) == apps[a].execStatus = "ERROR" /\ Ran(a)

\* C14: an application has started running only if every one of its inputs
\* is COMPLETED, so Clean has not run unless all the Split outputs are
\* COMPLETED; and once every root is COMPLETED, eventually the leaf drop is
\* COMPLETED or some application has failed.
C14_Barrier ==
    /\ [](\A a \in pg.apps : Ran(a) => InputsCompleted(a))
    /\ [](Ran(Uid("cl", 0)) => \A i \in 1..NumVis : drops[Uid("split_out", i)] = "COMPLETED")
    /\ [](RootsCompleted => <>(drops[pg.leaf] = "COMPLETED" \/ \E a \in pg.apps : Failed(a)))

\* every application ran and the leaf drop is COMPLETED
C14_Witness ==
    /\ pg = ChilesGraph
    /\ \A a \in pg.apps : apps[a].execStatus = "FINISHED" /\ apps[a].runs = 1
    /\ drops[pg.leaf] = "COMPLETED"

\* the applications that consume, directly or not, an output of a
Downstream(a) ==
    {x \in pg.apps : Range(pg.inputs[x]) \cap ErrorClosure(pg, Range(pg.outputs[a])) # {}}

\* C15: once the run of an application has raised, the application is in
\* ERROR, each of its outputs is in ERROR and not COMPLETED, no application
\* downstream of it has run or is running, and the leaf drop is not COMPLETED;
\* a drop in ERROR stays in ERROR, and an application in ERROR stays in ERROR
\* and is not run.
C15_FailurePropagates ==
    /\ [](\A a \in pg.apps :
            Failed(a) =>
                /\ \A d \in Range(pg.outputs[a]) : drops[d] = "ERROR"
                /\ \A x \in Downstream(a) :
                      ~Ran(x) /\ apps[x].execStatus \notin {"RUNNING", "FINISHED"}
                /\ drops[pg.leaf] # "COMPLETED")
    /\ [][/\ \A d \in pg.data : drops[d] = "ERROR" => drops'[d] = "ERROR"
          /\ \A a \in pg.apps :
                apps[a].execStatus = "ERROR" =>
                   apps'[a].execStatus = "ERROR" /\ apps'[a].runs = apps[a].runs]_vars

\* one Split failed after the others had completed their outputs
C15_Witness ==
    /\ pg = ChilesGraph
    /\ Failed(Uid("sp", 1))
    /\ \A i \in 2..NumVis : drops[Uid("split_out", i)] = "COMPLETED"
    /\ apps[Uid("cl", 0)].count = NumVis - 1

\* ======================================================================
\* A manager process (dfms/manager/cmdline.py, launchServer)
\* ======================================================================

\* pc: the line of launchServer the main thread is at; h: the line of
\* handle_signal it is at while it runs the handler ("none": not in it);
\* a signal that comes while the handler runs is handled on top of it
MgrIdle ==
    mgr = [pc |-> "unstarted", terminating |-> FALSE, h |-> "none", calls |-> <<>>,
           nsig |-> 0]

\* dm = opts.dmType(...); server = opts.restType(dm, opts.maxreqsize)
launchServer == [pc |-> "created", terminating |-> FALSE, h |-> "none", calls |-> <<>>,
                 nsig |-> 0]

\* mutant: handle_signal without the test of _terminating
handle_signal_again(s) == [s EXCEPT !.terminating = TRUE, !.h = "shutdown"]

\* handle_signal up to dm.shutdown(): if _terminating: return;
\* _terminating = True
handle_signal(s) ==
    IF s.terminating THEN s ELSE [s EXCEPT !.terminating = TRUE, !.h = "shutdown"]

\* the disposition of a signal at the main thread's line
MgrHandler(s, sig) ==
    IF s.pc = "created" \/ (s.pc = "sigint" /\ sig = "SIGTERM") THEN "default"
    ELSE "handle_signal"

\* signal.signal(signal.SIGINT, handle_signal), then
\* signal.signal(signal.SIGTERM, handle_signal), then server_t.start() and
\* signal.pause()
MgrStep ==
    /\ mgr.h = "none"
    /\ mgr.pc \in {"created", "sigint", "sigterm"}
    /\ mgr' = [mgr EXCEPT !.pc = IF @ = "created" THEN "sigint"
                                 ELSE IF @ = "sigint" THEN "sigterm" ELSE "pause"]
    /\ UNCHANGED <<nmvars, dmvars, dlvars, templates, engvars, cli, driver>>

\* SIGINT or SIGTERM reaches the process; signal.pause() returns when a
\* handler that was called has returned
MgrSignal ==
    /\ mgr.pc \notin {"unstarted", "dead"}
    /\ mgr.nsig < MaxSignals
    /\ \E sig \in {"SIGINT", "SIGTERM"} :
          mgr' = IF MgrHandler(mgr, sig) = "default"
                 THEN [mgr EXCEPT !.pc = "dead", !.h = "none", !.nsig = @ + 1]
                 ELSE LET s == handle_signal(mgr)
                      IN  [s EXCEPT !.nsig = @ + 1,
                                    !.pc = IF @ = "pause" /\ mgr.h = "none" /\ s.h = "none"
                                           THEN "returned" ELSE @]
    /\ UNCHANGED <<nmvars, dmvars, dlvars, templates, engvars, cli, driver>>

\* handle_signal: dm.shutdown(), which returns or raises
MgrShutdown ==
    /\ mgr.h = "shutdown"
    /\ \E raises \in BOOLEAN :
          mgr' = IF raises
                 THEN [mgr EXCEPT !.calls = Append(@, "dm.shutdown"), !.h = "none",
                                  !.pc = "dead"]
                 ELSE [mgr EXCEPT !.calls = Append(@, "dm.shutdown"), !.h = "stop"]
    /\ UNCHANGED <<nmvars, dmvars, dlvars, templates, engvars, cli, driver>>

\* handle_signal: server.stop()
MgrStop ==
    /\ mgr.h = "stop"
    /\ mgr' = [mgr EXCEPT !.calls = Append(@, "server.stop"), !.h = "thanks"]
    /\ UNCHANGED <<nmvars, dmvars, dlvars, templates, engvars, cli, driver>>

\* handle_signal returns; signal.pause() returns with it
MgrReturn ==
    /\ mgr.h = "thanks"
    /\ mgr' = [mgr EXCEPT !.h = "none", !.pc = IF @ = "pause" THEN "returned" ELSE @]
    /\ UNCHANGED <<nmvars, dmvars, dlvars, templates, engvars, cli, driver>>

MgrNext == MgrStep \/ MgrSignal \/ MgrShutdown \/ MgrStop \/ MgrReturn

\* ======================================================================
\* The stop command (dfms/manager/cmdline.py, start with options.stop)
\* ======================================================================

\* PIDLockFile.read_pid() returns None when the file cannot be opened or
\* does not hold an integer
NoPid == 0

NoPidFile == 0

BadPidFile == -1

Pids == 1..MaxPid

PidFiles == {NoPidFile, BadPidFile} \cup Pids

\* a PID of the host: no process, a process the caller may signal, or one
\* it may not
ProcStates == {"none", "own", "foreign"}

CliIdle ==
    cli = [pc |-> "unstarted", pidfile |-> NoPidFile, procs |-> <<>>, kills |-> <<>>,
           stderr |-> ""]

\* PIDLockFile(pidfile).read_pid()
read_pid(file) == IF file \in Pids THEN file ELSE NoPid

\* os.kill(pid, signal.SIGTERM): the errno it raises, or "" when the signal
\* was sent
os_kill(procs, pid) ==
    IF procs[pid] = "none" THEN "ESRCH"
    ELSE IF procs[pid] = "foreign" THEN "EPERM"
    ELSE ""

\* mutant: the PID file is removed on every OSError
start_stop_unlink(c) ==
    LET pid == read_pid(c.pidfile) IN
    IF pid = NoPid
    THEN [c EXCEPT !.pc = "done", !.stderr = "Cannot read PID file"]
    ELSE LET e == os_kill(c.procs, pid)
             k == [c EXCEPT !.pc = "done", !.kills = Append(@, pid)]
         IN  IF e = "" THEN k
             ELSE [k EXCEPT !.pidfile = NoPidFile, !.stderr = "removing PID file"]

\* start(options, parser), the branch of options.stop
start_stop(c) ==
    LET pid == read_pid(c.pidfile) IN
    IF pid = NoPid
    THEN [c EXCEPT !.pc = "done", !.stderr = "Cannot read PID file"]
    ELSE LET e == os_kill(c.procs, pid)
             k == [c EXCEPT !.pc = "done", !.kills = Append(@, pid)]
         IN  IF e = "ESRCH"
             THEN [k EXCEPT !.pidfile = NoPidFile, !.stderr = "removing PID file"]
             ELSE k

\* the command is about to run: any PID file, any processes
CliReady ==
    \E file \in PidFiles, procs \in [Pids -> ProcStates] :
        cli = [pc |-> "ready", pidfile |-> file, procs |-> procs, kills |-> <<>>,
               stderr |-> ""]

\* dlg nm|dim|mm -s
CliStop ==
    /\ cli.pc = "ready"
    /\ cli' = start_stop(cli)
    /\ UNCHANGED <<nmvars, dmvars, dlvars, templates, engvars, mgr, driver>>

\* C32: the stop command calls os.kill once, with the PID read from the PID
\* file, when the file can be read, and not at all when it cannot; it
\* removes the PID file when that call found no such process, and leaves it
\* as it was in every other case.
C32_StopSignalsRecordedPid ==
    [][(cli.pc = "ready" /\ cli'.pc = "done") =>
         LET pid == read_pid(cli.pidfile) IN
         /\ cli'.kills = IF pid = NoPid THEN <<>> ELSE <<pid>>
         /\ cli'.pidfile = IF pid # NoPid /\ cli.procs[pid] = "none"
                           THEN NoPidFile ELSE cli.pidfile
         /\ cli'.procs = cli.procs]_vars

\* the command signalled a PID that no process has any more and removed
\* the PID file, other processes being there
C32_Witness ==
    /\ cli.pc = "done" /\ Len(cli.kills) = 1
    /\ cli.procs[cli.kills[1]] = "none"
    /\ cli.pidfile = NoPidFile
    /\ \E q \in Pids : cli.procs[q] = "foreign"

\* ======================================================================
\* The tasks the Luigi driver schedules (dfms/luigi_int.py, requires)
\* ======================================================================

\* an upstream object is a drop of this manager or a Pyro proxy of a drop of
\* another manager
ObjectKinds == {"local", "proxy"}

\* the lists doutils.getUpstreamObjects may return for a drop
UpstreamLists ==
    UNION {[1..n -> ObjectKinds] : n \in 0..MaxUpstream}

DriverIdle ==
    driver = [pc |-> "unstarted", ups |-> <<>>, leaves |-> 0, re |-> <<>>, called |-> FALSE,
              req |-> <<>>, req_set |-> FALSE, complete |-> {}, completed |-> FALSE]

\* mutant: the upstream objects are not filtered
RunDataObjectTask_requires_all(ups) == [i \in DOMAIN ups |-> i]

\* RunDataObjectTask.requires: one RunDataObjectTask per upstream object that
\* is an AbstractDataObject; the task is named by the position of its drop
RunDataObjectTask_requires(ups) ==
    LET RECURSIVE Filter(_)
        Filter(i) == IF i > Len(ups) THEN <<>>
                     ELSE (IF ups[i] = "local" THEN <<i>> ELSE <<>>) \o Filter(i + 1)
    IN  Filter(1)

\* FinishGraphExecution.requires: self._req is built once, one
\* RunDataObjectTask per leaf
FinishGraphExecution_requires(d) ==
    IF d.req_set THEN d
    ELSE [d EXCEPT !.req = [i \in 1..d.leaves |-> i], !.req_set = TRUE]

\* FinishGraphExecution.__init__ for a graph with some leaves, and a drop
\* with some upstream objects
DriverReady ==
    \E ups \in UpstreamLists, n \in 1..MaxInputs :
        driver = [pc |-> "ready", ups |-> ups, leaves |-> n, re |-> <<>>,
                  called |-> FALSE, req |-> <<>>, req_set |-> FALSE, complete |-> {},
                  completed |-> FALSE]

\* Luigi asks the task of the drop for its requirements
TaskRequires ==
    /\ driver.pc = "ready" /\ ~driver.called
    /\ driver' = [driver EXCEPT !.re = RunDataObjectTask_requires(driver.ups),
                                !.called = TRUE]
    /\ UNCHANGED <<nmvars, dmvars, dlvars, templates, engvars, mgr, cli>>

\* Luigi asks FinishGraphExecution for its requirements
FinishRequires ==
    /\ driver.pc = "ready" /\ ~driver.completed
    /\ driver' = FinishGraphExecution_requires(driver)
    /\ driver' # driver
    /\ UNCHANGED <<nmvars, dmvars, dlvars, templates, engvars, mgr, cli>>

\* the task of a leaf becomes complete
LeafComplete ==
    /\ driver.req_set
    /\ \E i \in DOMAIN driver.req :
          /\ driver.req[i] \notin driver.complete
          /\ driver' = [driver EXCEPT !.complete = @ \cup {driver.req[i]}]
    /\ UNCHANGED <<nmvars, dmvars, dlvars, templates, engvars, mgr, cli>>

\* Luigi runs FinishGraphExecution once the tasks it requires are complete:
\* run() sets _completed
FinishRun ==
    /\ driver.req_set /\ ~driver.completed
    /\ \A i \in DOMAIN driver.req : driver.req[i] \in driver.complete
    /\ driver' = [driver EXCEPT !.completed = TRUE]
    /\ UNCHANGED <<nmvars, dmvars, dlvars, templates, engvars, mgr, cli>>

DriverNext == TaskRequires \/ FinishRequires \/ LeafComplete \/ FinishRun

\* the tasks in a list that stand for the object at position i
TasksFor(tasks, i) == {j \in DOMAIN tasks : tasks[j] = i}

\* C37: RunDataObjectTask.requires returns one task for each upstream object
\* that is a local drop, in their order, and none for a proxy, so no task
\* of this driver has a drop of another manager to execute or trigger;
\* FinishGraphExecution requires one task per leaf, and complete() is False
\* until run(), which Luigi calls when those tasks are complete.
C37_OnlyLocalScheduled ==
    /\ [](driver.called =>
            /\ \A i \in DOMAIN driver.ups :
                  Cardinality(TasksFor(driver.re, i))
                      = IF driver.ups[i] = "local" THEN 1 ELSE 0
            /\ \A j \in DOMAIN driver.re : driver.re[j] \in DOMAIN driver.ups
            /\ \A j, k \in DOMAIN driver.re : j < k => driver.re[j] < driver.re[k])
    /\ [](driver.req_set =>
            /\ Len(driver.req) = driver.leaves
            /\ \A i \in 1..driver.leaves : Cardinality(TasksFor(driver.req, i)) = 1)
    /\ [](driver.completed =>
            (driver.req_set /\ \A i \in 1..driver.leaves : i \in driver.complete))
    /\ [][driver.completed => driver'.completed]_vars

\* requires() left out a proxy between two local drops, and
\* FinishGraphExecution has run after the tasks of its two leaves
C37_Witness ==
    /\ driver.called /\ driver.ups = <<"local", "proxy", "local">>
    /\ driver.re = <<1, 3>>
    /\ driver.completed /\ driver.leaves = 2

\* ----------------------------------------------------------------------
\* Shutdown: properties
\* ----------------------------------------------------------------------

\* the step in which handle_signal of the daemon calls daemon.stop()
StopInvoked ==
    /\ stopf' # stopf
    /\ stopf'.origin = "stop" /\ stopf'.pc = "terminate"
    /\ stopf'.kinds = StopOrder /\ stopf'.log = <<>>

Calls(c) == {i \in DOMAIN mgr.calls : mgr.calls[i] = c}

\* C26: in the daemon, daemon.stop() is called only by the signal that finds
\* terminating unset, and terminating stays set, so stop() is called at most
\* once; in a manager process dm.shutdown() and server.stop() are called at
\* most once each, and server.stop() only after dm.shutdown().
C26_ShutdownOnce ==
    /\ [][StopInvoked => (~terminating /\ terminating')]_vars
    /\ [][terminating => terminating']_vars
    /\ [][mgr.terminating => mgr'.terminating]_vars
    /\ [](/\ Cardinality(Calls("dm.shutdown")) <= 1
          /\ Cardinality(Calls("server.stop")) <= 1
          /\ \A i \in Calls("server.stop") : \E j \in Calls("dm.shutdown") : j < i)

\* three signals reached the manager process, one while it was in
\* dm.shutdown(), and it shut down once; the daemon is in stop()
C26_Witness ==
    /\ mgr.nsig = 3
    /\ mgr.calls = <<"dm.shutdown", "server.stop">>
    /\ terminating /\ stopf.origin = "stop"

\* ======================================================================
\* Specifications
\* ======================================================================

\* the daemon of the daemon specifications is left as constructed
DaemonIdle == DfmsDaemon(FALSE, FALSE, FALSE)

AppsIdle == DynIdle /\ TplIdle /\ EngIdle /\ MgrIdle /\ CliIdle /\ DriverIdle

\* ---- specifications of the daemon ----

\* the Node Manager of the NodeManager specification is left as constructed
NMIdle ==
    /\ sessions = <<>>
    /\ dlm = <<>>
    /\ useDLM = TRUE
    /\ nextObj = 1
    /\ nm_last = [op |-> "none", sid |-> "", err |-> "OK"]
    /\ nm_trace = <<>>
    /\ hist = [sid \in SessionIds |-> "fresh"]

DaemonInit ==
    /\ NMIdle
    /\ AppsIdle
    /\ \E master \in BOOLEAN, noNM \in BOOLEAN, disable_zeroconf \in BOOLEAN :
          DfmsDaemon(master, noNM, disable_zeroconf)

RestNext ==
    \/ RestRequest
    \/ RestCheck
    \/ RestAssign
    \/ RestStart
    \/ RestLog
    \/ RestZeroconf
    \/ RestReturn

StopNext ==
    \/ StopTerminate
    \/ StopJoin
    \/ StopKill
    \/ StopJoin2
    \/ StopClear
    \/ StopPost

ChildNext ==
    \/ ChildStep
    \/ ChildExit
    \/ ChildSignal

\* the daemon with its REST interface, its signals and its stop calls
DaemonNext ==
    \/ InstallHandlers
    \/ Run
    \/ RestNext
    \/ Signal
    \/ StopOne
    \/ StopNext
    \/ ChildNext

DaemonSpec == DaemonInit /\ [][DaemonNext]_vars

\* the daemon serving REST requests and zeroconf notifications, never stopped
ServeNext ==
    \/ InstallHandlers
    \/ Run
    \/ RestNext
    \/ ChildNext

ServeSpec == DaemonInit /\ [][ServeNext]_vars

\* the daemon's zeroconf side: managers started, notifications delivered
ZeroconfNext ==
    \/ InstallHandlers
    \/ Run
    \/ RestNext
    \/ Notify

ZeroconfSpec == DaemonInit /\ [][ZeroconfNext]_vars

\* the thread that runs a stop call keeps running: each step of the call is
\* taken once it can be, and join(timeout) returns when the timeout has passed
DaemonFairSpec == DaemonSpec /\ WF_vars(StopNext)

\* ---- specifications of the other components ----

DynlibInit == NMIdle /\ DaemonIdle /\ DynIdle /\ TplIdle /\ EngIdle /\ MgrIdle /\ CliIdle /\ DriverIdle

DynlibSpec == DynlibInit /\ [][DynlibNext]_vars

DescriptorSpec == DynlibInit /\ [][DescriptorNext]_vars

TemplateInit == NMIdle /\ DaemonIdle /\ DynIdle /\ EngIdle /\ TemplateChosen /\ MgrIdle /\ CliIdle /\ DriverIdle

TemplateNext == GetTemplates

TemplateSpec == TemplateInit /\ [][TemplateNext]_vars

LuigiNext ==
    \/ RootCompleted
    \/ AppRunReturns
    \/ AppRunRaises
    \/ TaskStart
    \/ TaskTrigger
    \/ TaskWake
    \/ Tick

LuigiInit == NMIdle /\ DaemonIdle /\ DynIdle /\ TplIdle /\ LuigiDeployed /\ MgrIdle /\ CliIdle /\ DriverIdle

LuigiSpec == LuigiInit /\ [][LuigiNext]_vars

\* the thread of run() is scheduled, and time passes
LuigiFairSpec == LuigiSpec /\ WF_vars(TaskWake) /\ WF_vars(Tick)

ChilesNext == MainSetCompleted \/ AppRunReturns \/ AppRunRaises

ChilesInit == NMIdle /\ DaemonIdle /\ DynIdle /\ TplIdle /\ ChilesDeployed /\ MgrIdle /\ CliIdle /\ DriverIdle

ChilesSpec == ChilesInit /\ [][ChilesNext]_vars

\* the main loop goes on, and the run() of an application ends
ChilesFairSpec == ChilesSpec /\ WF_vars(MainSetCompleted) /\ WF_vars(AppRun)

\* the daemon and a manager process receiving signals
ShutdownInit ==
    /\ NMIdle /\ DynIdle /\ TplIdle /\ EngIdle
    /\ DaemonIdle
    /\ mgr = launchServer
    /\ CliIdle /\ DriverIdle

ShutdownNext ==
    \/ InstallHandlers
    \/ Run
    \/ Signal
    \/ StopNext
    \/ ChildNext
    \/ MgrNext

ShutdownSpec == ShutdownInit /\ [][ShutdownNext]_vars

\* the stop command on any PID file and any processes
StopCmdInit ==
    /\ NMIdle /\ DaemonIdle /\ DynIdle /\ TplIdle /\ EngIdle /\ MgrIdle
    /\ CliReady /\ DriverIdle

StopCmdNext == CliStop

StopCmdSpec == StopCmdInit /\ [][StopCmdNext]_vars

\* the requirements of the Luigi tasks, for any upstream objects and leaves
DriverInit ==
    /\ NMIdle /\ DaemonIdle /\ DynIdle /\ TplIdle /\ EngIdle /\ MgrIdle /\ CliIdle
    /\ DriverReady

DriverSpec == DriverInit /\ [][DriverNext]_vars

\* ---- specification of the NodeManager ----

Init == NMInit /\ DaemonIdle /\ AppsIdle

\* building and deploying graphs of every shape
DeployNext == CreateSession \/ AddGraphSpec \/ LinkAnyParts \/ DeploySession

DeploySpec == Init /\ [][DeployNext]_vars

Next == NMNext

Spec == Init /\ [][Next]_vars

====
